---- MODULE Spec2Model ----
(***************************************************************************)
(* A model of pypers' pipeline engine (src/pypers/pipeline.py):            *)
(* create_pipeline (the stage-order resolver), Pipeline.process,           *)
(* Pipeline.get_extra_stages, ProcessingControl, Stage.__call__,           *)
(* Configurator.first_differing_stage and Pipeline.append, of the batch    *)
(* run that src/repype/textual/run.py and src/tests/test_cli.py observe,   *)
(* and of the RunScreen of src/repype/textual/run.py with the status       *)
(* updates it is handed.                                                   *)
(***************************************************************************)
EXTENDS Integers, Sequences, FiniteSets, TLC

VARIABLES
    stages,     \* the stage list handed to create_pipeline, in declaration order
    pipeline,   \* the outcome of create_pipeline(stages); status "none" before the call
    extras,     \* the latest direct call of Pipeline.get_extra_stages and what it returned
    run,        \* the latest call of Pipeline.process and its outcome
    cached,     \* the call before it, whose data record the latest call was given
    diff,       \* the latest call of Configurator.first_differing_stage and its result
    batch,      \* the batch of tasks run on the pipeline, and how far the run has got
    cancel,     \* the request to cancel made while the latest call of process was running
    screen,     \* the RunScreen: its widgets and the status updates it has handled
    progress,   \* the progress wrapper around a sequence: what it has yielded and emitted
    channel,    \* the status channel: the updates written and what each reader was handed
    cfg_objects, \* the configuration objects of a call of process
    stage_call, \* a direct call of a stage: the record before it and its outcome
    control,    \* a ProcessingControl stepped over the stage IDs of the pipeline
    appended,   \* a Pipeline built by calls of append, and the latest call
    callbacks   \* the callbacks registered on the stages of the pipeline, and their invocations

vars == <<stages, pipeline, extras, run, cached, diff, batch, cancel, screen, progress, channel, cfg_objects, stage_call, control, appended, callbacks>>

-----------------------------------------------------------------------------
(* Bounds of the model *)

\* longest stage list handed to create_pipeline
MaxStages == 3

\* most field declarations (inputs + outputs, consumes being inputs) of a
\* whole stage list
MaxTotalDecl == 4

\* the seed field provided by the pipeline itself
InputField == "input"

\* the field names stages may declare
Fields == {InputField, "x", "y"}

-----------------------------------------------------------------------------
(* Stage *)

\* Stage.__init__: consumed fields are inputs too
StageInit(inputs, outputs, consumes, enabled_by_default) ==
    [inputs   |-> inputs \cup consumes,
     outputs  |-> outputs,
     consumes |-> consumes,
     enabled_by_default |-> enabled_by_default]

\* the number of fields a stage declares
DeclSize(stage) == Cardinality(stage.inputs) + Cardinality(stage.outputs)

\* the stage classes of the model: every declaration over Fields
StageClasses(defaults) ==
    { StageInit(t[1], t[2], t[3], t[4]) :
        t \in (SUBSET Fields) \X (SUBSET Fields) \X (SUBSET Fields) \X defaults }

\* Stage.id is derived from the stage's class: two stages share an ID
\* exactly when they instantiate the same class
StageId(stage) == stage

-----------------------------------------------------------------------------
(* helpers on sequences *)

Range(s) == { s[i] : i \in DOMAIN s }

\* list.remove by position
RemoveAt(s, i) == SubSeq(s, 1, i - 1) \o SubSeq(s, i + 1, Len(s))

Min(S) == CHOOSE m \in S : \A k \in S : m <= k

\* the sum of f[i] over the domain of a sequence
RECURSIVE SumSeq(_)
SumSeq(s) == IF Len(s) = 0 THEN 0 ELSE Head(s) + SumSeq(Tail(s))

-----------------------------------------------------------------------------
(* create_pipeline *)

\* "ids = [stage.id for stage in stages]; len(ids) == len(frozenset(ids))"
UniqueIds(sts) ==
    Len(sts) = Cardinality({ StageId(sts[i]) : i \in DOMAIN sts })

\* "outputs = list(available_inputs) + sum((list(stage.outputs) ...), [])":
\* the number of entries of that list and of its frozenset
OutputsListLen(sts) ==
    1 + SumSeq([i \in DOMAIN sts |-> Cardinality(sts[i].outputs)])

OutputsSet(sts) ==
    {InputField} \cup UNION { sts[i].outputs : i \in DOMAIN sts }

\* an output check that leaves the seed field out of the list
UniqueOutputsWithoutSeed(sts) ==
    SumSeq([i \in DOMAIN sts |-> Cardinality(sts[i].outputs)])
        = Cardinality(UNION { sts[i].outputs : i \in DOMAIN sts })

\* an output check that only keeps the stages from producing the seed field
SeedNotProduced(sts) ==
    \A i \in DOMAIN sts : InputField \notin sts[i].outputs

UniqueOutputs(sts) == OutputsListLen(sts) = Cardinality(OutputsSet(sts))

\* the inner loop over stage2: some other remaining stage requires what
\* stage1 consumes (remaining holds positions of the declared list)
Conflicted(sts, remaining, i1) ==
    \E k \in DOMAIN remaining :
        /\ remaining[k] # i1
        /\ Cardinality(sts[i1].consumes) > 0
        /\ sts[i1].consumes \subseteq sts[remaining[k]].inputs

\* a resolver that does not look at the available inputs
IsCandidateIgnoringInputs(sts, remaining, available, i1) ==
    ~Conflicted(sts, remaining, i1)

\* the test a stage1 passes to become next_stage
IsCandidate(sts, remaining, available, i1) ==
    /\ sts[i1].inputs \subseteq available
    /\ ~Conflicted(sts, remaining, i1)

\* a scan that keeps the last candidate instead of stopping at the first
NextStageLastFound(sts, remaining, available) ==
    LET found == { k \in DOMAIN remaining :
                     IsCandidate(sts, remaining, available, remaining[k]) }
    IN  IF found = {} THEN 0
        ELSE remaining[CHOOSE m \in found : \A k \in found : m >= k]

\* the outer loop over stage1: the first candidate of the scan, 0 for None
NextStage(sts, remaining, available) ==
    LET found == { k \in DOMAIN remaining :
                     IsCandidate(sts, remaining, available, remaining[k]) }
    IN  IF found = {} THEN 0 ELSE remaining[Min(found)]

\* remaining_stages.remove(next_stage)
RemoveStage(remaining, n) ==
    RemoveAt(remaining, Min({ k \in DOMAIN remaining : remaining[k] = n }))

\* a resolver that returns the pipeline built so far instead of failing
NoNextStageSilent(order, available, remaining) ==
    [status |-> "ok", order |-> order,
     available |-> available, remaining |-> remaining]

\* the outcome when no next stage is found
NoNextStage(order, available, remaining) ==
    [status |-> "failed to resolve total ordering", order |-> order,
     available |-> available, remaining |-> remaining]

\* the while loop of create_pipeline
RECURSIVE ResolveOrder(_, _, _, _)
ResolveOrder(sts, remaining, available, order) ==
    IF Len(remaining) = 0
    THEN [status |-> "ok", order |-> order,
          available |-> available, remaining |-> remaining]
    ELSE LET n == NextStage(sts, remaining, available)
         IN  IF n = 0
             THEN NoNextStage(order, available, remaining)
             ELSE ResolveOrder(sts, RemoveStage(remaining, n),
                               (available \cup sts[n].outputs) \ sts[n].consumes,
                               Append(order, n))

\* create_pipeline(stages): order holds the positions (in the declared list)
\* of the stages appended to the pipeline so far
create_pipeline(sts) ==
    IF ~UniqueIds(sts)
    THEN [status |-> "ambiguous stage identifiers", order |-> <<>>,
          available |-> {InputField}, remaining |-> [i \in DOMAIN sts |-> i]]
    ELSE IF ~UniqueOutputs(sts)
    THEN [status |-> "ambiguous outputs", order |-> <<>>,
          available |-> {InputField}, remaining |-> [i \in DOMAIN sts |-> i]]
    ELSE ResolveOrder(sts, [i \in DOMAIN sts |-> i], {InputField}, <<>>)

\* Pipeline.stages of the returned pipeline
PipelineStages == [k \in DOMAIN pipeline.order |-> stages[pipeline.order[k]]]

-----------------------------------------------------------------------------
(* optional values: None is <<>>, a value v is <<v>>; the stage reference *)
(* "X+" (the stage after X) is <<X, "+">>                                  *)

None == <<>>

Some(v) == <<v>>

IsPlus(ref) == Len(ref) = 2

\* a data record with one more field
WithField(data, key, value) ==
    [k \in DOMAIN data \cup {key} |-> IF k = key THEN value ELSE data[k]]

EmptyRecord == [k \in {} |-> 0]

-----------------------------------------------------------------------------
(* ProcessingControl *)

ProcessingControl(first_stage, last_stage) ==
    [started     |-> first_stage = None,
     first_stage |-> first_stage,
     last_stage  |-> last_stage]

\* a step that stops at last_stage before it answers
CtrlStepStoppingBefore(ctrl, stage) ==
    LET started == IF ~ctrl.started /\ stage = ctrl.first_stage
                   THEN TRUE ELSE ctrl.started
        do_step == started /\ stage # ctrl.last_stage
    IN  [do_step |-> do_step,
         ctrl    |-> [ctrl EXCEPT !.started = do_step]]

\* ProcessingControl.step: the answer and the control's state after it
CtrlStep(ctrl, stage) ==
    LET started == IF ~ctrl.started /\ stage = ctrl.first_stage
                   THEN TRUE ELSE ctrl.started
    IN  [do_step |-> started,
         ctrl    |-> [ctrl EXCEPT !.started =
                        IF stage = ctrl.last_stage THEN FALSE ELSE started]]

\* the answers of ctrl.step for the stages k.. of the list, in order
RECURSIVE StepAll(_, _, _)
StepAll(ps, k, ctrl) ==
    IF k > Len(ps) THEN <<>>
    ELSE LET r == CtrlStep(ctrl, Some(StageId(ps[k])))
         IN  <<r.do_step>> \o StepAll(ps, k + 1, r.ctrl)

-----------------------------------------------------------------------------
(* Pipeline.find and Pipeline.get_extra_stages *)

\* not_found_dummy = float('inf')
NotFound == 1000000

\* Pipeline.find, counting positions from 1
Find(ps, stage_id) ==
    LET at == { k \in DOMAIN ps : StageId(ps[k]) = stage_id }
    IN  IF at = {} THEN NotFound ELSE Min(at)

Max(S) == CHOOSE m \in S : \A k \in S : m >= k

\* stage_by_output: the dict is updated in list order, a later stage wins;
\* 0 when the field is no key of it
StageByOutput(ps, field) ==
    LET at == { k \in DOMAIN ps : field \in ps[k].outputs }
    IN  IF at = {} THEN 0 ELSE Max(at)

\* the while loop of get_extra_stages. list(missing_inputs)[0] is any
\* element of the set: the loop's outcomes for every choice
RECURSIVE ExtraLoop(_, _, _, _)
ExtraLoop(ps, required, available, extra_stages) ==
    LET missing == required \ available
    IN  IF missing = {}
        THEN {[status |-> "ok", extra_stages |-> extra_stages]}
        ELSE UNION {
               LET k == StageByOutput(ps, m)
               IN  IF k = 0
                   THEN {[status |-> "KeyError", extra_stages |-> extra_stages]}
                   ELSE ExtraLoop(ps, required \cup ps[k].inputs,
                                  available \cup ps[k].outputs,
                                  Append(extra_stages, StageId(ps[k])))
               : m \in missing }

\* a backfill that forgets "available_inputs |= stage.outputs" in the window
get_extra_stages_window_outputs_missing(ps, first_stage, last_stage, available_inputs) ==
    LET steps  == StepAll(ps, 1, ProcessingControl(first_stage, last_stage))
        window == { k \in DOMAIN ps : steps[k] }
    IN  ExtraLoop(ps,
                  UNION { ps[k].inputs : k \in window },
                  available_inputs \cup {InputField},
                  <<>>)

\* a backfill that never adds a stage
get_extra_stages_none(ps, first_stage, last_stage, available_inputs) ==
    {[status |-> "ok", extra_stages |-> <<>>]}

\* Pipeline.get_extra_stages: the set of its possible outcomes
get_extra_stages(ps, first_stage, last_stage, available_inputs) ==
    LET steps  == StepAll(ps, 1, ProcessingControl(first_stage, last_stage))
        window == { k \in DOMAIN ps : steps[k] }
    IN  ExtraLoop(ps,
                  UNION { ps[k].inputs : k \in window },
                  available_inputs \cup {InputField}
                      \cup UNION { ps[k].outputs : k \in window },
                  <<>>)

-----------------------------------------------------------------------------
(* Stage.__call__ *)

\* values of the data record
Modulus == 5

RECURSIVE SumOver(_, _)
SumOver(f, S) ==
    IF S = {} THEN 0
    ELSE LET k == CHOOSE k \in S : TRUE IN f[k] + SumOver(f, S \ {k})

\* the keys of the mapping the process method of the stage's class returns:
\* the declared outputs, unless the class is given other keys to return
ReturnedKeys(stage) ==
    IF "returns" \in DOMAIN stage THEN stage.returns ELSE stage.outputs

\* a stage class whose process method returns the given keys
Returning(stage, keys) == [returns |-> keys] @@ stage

\* a stage class whose process method raises
Raising(stage) == [raises |-> TRUE] @@ stage

\* the process method of the stage's class raises
ProcessRaises(stage) == "raises" \in DOMAIN stage

\* Stage.process of a concrete stage: a deterministic function of its inputs
StageProcess(stage, input_data) ==
    [o \in ReturnedKeys(stage) |->
        (1 + SumOver(input_data, DOMAIN input_data)) % Modulus]

\* a check of the returned mapping that finds missing outputs only
NoOutputMissing(stage, output_data) == stage.outputs \subseteq DOMAIN output_data

\* "len(set(output_data.keys()) ^ set(self.outputs)) == 0"
OutputsAsDeclared(stage, output_data) ==
    (DOMAIN output_data \ stage.outputs) \cup (stage.outputs \ DOMAIN output_data) = {}

\* a stage that ignores the 'enabled' key of its configuration
StageEnabledByDefaultOnly(stage, cfg) == stage.enabled_by_default

\* cfg.get('enabled', self.enabled_by_default); cfg maps a stage ID to None
\* (no 'enabled' key) or to the flag
StageEnabled(stage, cfg) ==
    IF cfg[StageId(stage)] # None
    THEN cfg[StageId(stage)][1]
    ELSE stage.enabled_by_default

\* a stage that merges the outputs and deletes nothing
UpdateWithoutDelete(stage, data, output_data) ==
    [k \in DOMAIN data \cup DOMAIN output_data |->
        IF k \in DOMAIN output_data THEN output_data[k] ELSE data[k]]

\* data.update(output_data); for key in self.consumes: del data[key]
UpdateData(stage, data, output_data) ==
    [k \in (DOMAIN data \cup DOMAIN output_data) \ stage.consumes |->
        IF k \in DOMAIN output_data THEN output_data[k] ELSE data[k]]

\* a stage that merges what process returned before it checks the keys
MergedBeforeCheck(stage, data, output_data) ==
    UpdateData(stage, data, output_data)

\* the record when the assert on the returned keys fails: the assert stands
\* before data.update and the deletions
DataAtFailedCheck(stage, data, output_data) == data

\* Stage.__call__: events are the callbacks fired and the call of process
StageCall(stage, data, cfg, elapsed) ==
    IF StageEnabled(stage, cfg)
    THEN IF ~(stage.inputs \subseteq DOMAIN data)
         THEN [status |-> "KeyError", data |-> data, dt |-> 0,
               events |-> <<"start">>]
         ELSE IF ProcessRaises(stage)
         THEN [status |-> "Exception", data |-> data, dt |-> 0,
               events |-> <<"start", "process">>]
         ELSE LET output_data ==
                      StageProcess(stage, [k \in stage.inputs |-> data[k]])
              IN  IF ~OutputsAsDeclared(stage, output_data)
                  THEN [status |-> "AssertionError",
                        data |-> DataAtFailedCheck(stage, data, output_data),
                        dt |-> 0,
                        events |-> <<"start", "process">>]
                  ELSE [status |-> "ok",
                        data   |-> UpdateData(stage, data, output_data),
                        dt     |-> elapsed,
                        events |-> <<"start", "process", "end">>]
    ELSE [status |-> "ok", data |-> data, dt |-> 0, events |-> <<"skip">>]

-----------------------------------------------------------------------------
(* Pipeline.process *)

\* the events of one stage, tagged with its ID
Tagged(events, stage) == [i \in DOMAIN events |-> <<events[i], StageId(stage)>>]

\* a stage loop that sends no skip notification to the stages it leaves out
RECURSIVE RunStagesWithoutSkip(_, _, _, _, _, _, _, _, _)
RunStagesWithoutSkip(ps, k, ctrl, extra_stages, data, cfg, elapsed, timings, log) ==
    IF k > Len(ps)
    THEN [status |-> "returned", data |-> Some(data), timings |-> timings, log |-> log]
    ELSE LET r == CtrlStep(ctrl, Some(StageId(ps[k])))
         IN  IF r.do_step \/ StageId(ps[k]) \in Range(extra_stages)
             THEN LET c == StageCall(ps[k], data, cfg, elapsed[k])
                  IN  IF c.status # "ok"
                      THEN [status |-> c.status, data |-> Some(c.data),
                            timings |-> timings,
                            log |-> log \o Tagged(c.events, ps[k])]
                      ELSE RunStagesWithoutSkip(ps, k + 1, r.ctrl, extra_stages,
                                                c.data, cfg, elapsed,
                                                timings \cup {<<StageId(ps[k]), c.dt>>},
                                                log \o Tagged(c.events, ps[k]))
             ELSE RunStagesWithoutSkip(ps, k + 1, r.ctrl, extra_stages, data, cfg,
                                       elapsed, timings, log)

\* a stage loop that catches the failure of a stage and goes on
Swallowed(c) == FALSE

\* "except: ... raise": the failure of a stage leaves the loop and process
Reraised(c) == c.status # "ok"

\* "for stage in self.stages" from position k on
RECURSIVE RunStages(_, _, _, _, _, _, _, _, _)
RunStages(ps, k, ctrl, extra_stages, data, cfg, elapsed, timings, log) ==
    IF k > Len(ps)
    THEN [status |-> "returned", data |-> Some(data), timings |-> timings, log |-> log]
    ELSE LET r == CtrlStep(ctrl, Some(StageId(ps[k])))
         IN  IF r.do_step \/ StageId(ps[k]) \in Range(extra_stages)
             THEN LET c == StageCall(ps[k], data, cfg, elapsed[k])
                  IN  IF Reraised(c)
                      THEN [status |-> c.status, data |-> Some(c.data),
                            timings |-> timings,
                            log |-> log \o Tagged(c.events, ps[k])]
                      ELSE RunStages(ps, k + 1, r.ctrl, extra_stages, c.data, cfg,
                                     elapsed,
                                     timings \cup {<<StageId(ps[k]), c.dt>>},
                                     log \o Tagged(c.events, ps[k]))
             ELSE RunStages(ps, k + 1, r.ctrl, extra_stages, data, cfg, elapsed,
                            timings, log \o Tagged(<<"skip">>, ps[k]))

\* an outcome of process that ran no stage
NoStageRun(status, first_stage, data) ==
    [status |-> status, first_stage |-> first_stage, data |-> data,
     timings |-> {}, log |-> <<>>, extra_stages |-> <<>>, early |-> FALSE]

\* a normalisation that resolves "X+" to X itself
NormalizeFirstPlusSame(ps, first_stage, data) ==
    LET first1 == IF first_stage = Some(StageId(ps[1])) /\ data = None
                  THEN None ELSE first_stage
    IN  IF first1 # None /\ IsPlus(first1)
        THEN LET at == Find(ps, first1[1])
             IN  IF at = NotFound THEN [status |-> "TypeError", first_stage |-> first1]
                 ELSE [status |-> "ok", first_stage |-> Some(StageId(ps[at]))]
        ELSE [status |-> "ok", first_stage |-> first1]

\* the first_stage after "if first_stage == self.stages[0].id and data is None"
\* and after the resolution of "X+"; status "ok" unless an index is out of range
NormalizeFirst(ps, first_stage, data) ==
    LET first1 == IF first_stage = Some(StageId(ps[1])) /\ data = None
                  THEN None ELSE first_stage
    IN  IF first1 # None /\ IsPlus(first1)
        THEN LET at == Find(ps, first1[1])
             IN  IF at = NotFound THEN [status |-> "TypeError", first_stage |-> first1]
                 ELSE IF at + 1 > Len(ps)
                 THEN [status |-> "IndexError", first_stage |-> first1]
                 ELSE [status |-> "ok", first_stage |-> Some(StageId(ps[at + 1]))]
        ELSE [status |-> "ok", first_stage |-> first1]

\* a window test that compares the two positions the wrong way round
FirstBeforeLast(ps, first_stage, last_stage) ==
    /\ first_stage # None /\ last_stage # None
    /\ Find(ps, first_stage[1]) < Find(ps, last_stage[1])

\* "self.find(first_stage) > self.find(last_stage)", both being given
FirstBeyondLast(ps, first_stage, last_stage) ==
    /\ first_stage # None /\ last_stage # None
    /\ Find(ps, first_stage[1]) > Find(ps, last_stage[1])

\* a process that does not ask for the data record of a partial run
DataNeverMissing(ps, first_stage, data) == FALSE

\* "first_stage is not None and first_stage != self.stages[0].id and data is None"
DataMissing(ps, first_stage, data) ==
    first_stage # None /\ first_stage # Some(StageId(ps[1])) /\ data = None

\* Pipeline.process: the set of its possible outcomes (one per outcome of
\* get_extra_stages). timings is the set of <<stage ID, seconds>> entries
Process(ps, input, cfg, first_stage, last_stage, data, elapsed) ==
    IF Len(ps) = 0
    THEN {NoStageRun("IndexError", first_stage, data)}
    ELSE
    LET norm  == NormalizeFirst(ps, first_stage, data)
        first == norm.first_stage
    IN  IF norm.status # "ok"
        THEN {NoStageRun(norm.status, first, data)}
        ELSE IF FirstBeyondLast(ps, first, last_stage)
        THEN {[NoStageRun("returned", first, data) EXCEPT !.early = TRUE]}
        ELSE IF DataMissing(ps, first, data)
        THEN {NoStageRun("ValueError", first, data)}
        ELSE
        LET data1 == IF data = None THEN EmptyRecord ELSE data[1]
            data2 == IF input # None
                     THEN WithField(data1, InputField, input[1]) ELSE data1
        IN  { IF x.status # "ok"
              THEN [NoStageRun(x.status, first, Some(data2))
                        EXCEPT !.extra_stages = x.extra_stages]
              ELSE [first_stage |-> first, extra_stages |-> x.extra_stages,
                    early |-> FALSE]
                   @@ RunStages(ps, 1, ProcessingControl(first, last_stage),
                                x.extra_stages, data2, cfg, elapsed, {}, <<>>)
              : x \in get_extra_stages(ps, first, last_stage, DOMAIN data2) }

-----------------------------------------------------------------------------
(* Configurator.first_differing_stage; a configuration maps the IDs of some
   stages to their sub-mappings *)

\* the stage ID is in both configurations and the sub-mappings differ, or it
\* is in the first configuration only
DiffersOneSided(stage, config1, config2) ==
    \/ StageId(stage) \in DOMAIN config1 /\ StageId(stage) \notin DOMAIN config2
    \/ /\ StageId(stage) \in DOMAIN config1 /\ StageId(stage) \in DOMAIN config2
       /\ config1[StageId(stage)] # config2[StageId(stage)]

\* the "any([...])" of first_differing_stage for one stage
Differs(stage, config1, config2) ==
    \/ StageId(stage) \in DOMAIN config1 /\ StageId(stage) \notin DOMAIN config2
    \/ StageId(stage) \notin DOMAIN config1 /\ StageId(stage) \in DOMAIN config2
    \/ /\ StageId(stage) \in DOMAIN config1 /\ StageId(stage) \in DOMAIN config2
       /\ config1[StageId(stage)] # config2[StageId(stage)]

\* "for stage in self.pipeline.stages" from position k on: the stage found,
\* or None
RECURSIVE FirstDifferingFrom(_, _, _, _)
FirstDifferingFrom(ps, k, config1, config2) ==
    IF k > Len(ps) THEN None
    ELSE IF Differs(ps[k], config1, config2) THEN Some(StageId(ps[k]))
    ELSE FirstDifferingFrom(ps, k + 1, config1, config2)

first_differing_stage(ps, config1, config2) ==
    FirstDifferingFrom(ps, 1, config1, config2)

-----------------------------------------------------------------------------
(* the state machine *)

\* longest elapsed time of a stage, in seconds
MaxElapsed == 1

\* time.time() - t0 of the stage at position k: from 0 to MaxElapsed seconds,
\* by position
Elapsed(ps) == [k \in DOMAIN ps |-> (k - 1) % (MaxElapsed + 1)]

\* the value of the input handed to process
InputValue == 1

\* the value of the fields of a data record handed to process
PriorValue == 0

NoPipeline ==
    [status |-> "none", order |-> <<>>, available |-> {}, remaining |-> <<>>]

NoCall == [status |-> "none"]

\* before any stage is constructed
Init ==
    /\ stages = <<>>
    /\ pipeline = NoPipeline
    /\ extras = NoCall
    /\ run = NoCall
    /\ cached = NoCall
    /\ diff = NoCall
    /\ batch = NoCall
    /\ cancel = NoCall
    /\ screen = NoCall
    /\ progress = NoCall
    /\ channel = NoCall
    /\ cfg_objects = NoCall
    /\ stage_call = NoCall
    /\ control = NoCall
    /\ appended = NoCall
    /\ callbacks = NoCall

\* the number of fields the stages of a list declare, in all
TotalDecl(sts) == SumSeq([i \in DOMAIN sts |-> DeclSize(sts[i])])

\* a stage of one of the given classes is constructed and added to the list
\* that create_pipeline will be handed; the list declares at most t fields
NewStage(classes, t) ==
    /\ pipeline.status = "none"
    /\ Len(stages) < MaxStages
    /\ \E c \in classes :
          /\ TotalDecl(stages) + DeclSize(c) <= t
          /\ stages' = Append(stages, c)
    /\ UNCHANGED <<pipeline, extras, run, cached, diff, batch, cancel, screen, progress, channel, cfg_objects, stage_call, control, appended, callbacks>>

\* create_pipeline returns the list as a pipeline in its declared order
KeptInOrder(sts) ==
    LET p == create_pipeline(sts)
    IN  p.status = "ok" /\ p.order = [i \in DOMAIN sts |-> i]

\* the stage classes that declare a field and that create_pipeline keeps at
\* the end of the list (process reads the resolved order only, and every
\* order create_pipeline returns is kept when declared in that order)
DeclaringClasses(defaults) ==
    { c \in StageClasses(defaults) :
        DeclSize(c) > 0 /\ KeptInOrder(Append(stages, c)) }

\* a stage that declares a field is added to the list of a pipeline to run
DeclareStage == NewStage(DeclaringClasses({TRUE}), MaxTotalDecl)

\* any stage that is enabled by default is added
DeclareAnyStage == NewStage(StageClasses({TRUE}), MaxTotalDecl)

CreatePipeline ==
    /\ pipeline.status = "none"
    /\ pipeline' = create_pipeline(stages)
    /\ UNCHANGED <<stages, extras, run, cached, diff, batch, cancel, screen, progress, channel, cfg_objects, stage_call, control, appended, callbacks>>

\* the stage references a caller passes: None or the ID of a stage
StageRefs(ps) ==
    {None} \cup { Some(StageId(ps[k])) : k \in DOMAIN ps }

\* the data records a caller passes
DataRecords == { [k \in S |-> PriorValue] : S \in SUBSET Fields }

\* the configuration without any 'enabled' key
DefaultCfg(ps) == [id \in { StageId(ps[k]) : k \in DOMAIN ps } |-> None]

\* a direct call of get_extra_stages on the resolved pipeline
GetExtraStages(first_stage, last_stage, available_inputs) ==
    /\ pipeline.status = "ok"
    /\ extras.status = "none" /\ run.status = "none"
    /\ \E x \in get_extra_stages(PipelineStages, first_stage, last_stage,
                                 available_inputs) :
          extras' = [first_stage |-> first_stage, last_stage |-> last_stage,
                     available_inputs |-> available_inputs] @@ x
    /\ UNCHANGED <<stages, pipeline, run, cached, diff, batch, cancel, screen, progress, channel, cfg_objects, stage_call, control, appended, callbacks>>

\* a call of process on the resolved pipeline
ProcessCall(input, cfg, first_stage, last_stage, data, elapsed) ==
    /\ pipeline.status = "ok"
    /\ extras.status = "none" /\ run.status = "none"
    /\ \E out \in Process(PipelineStages, input, cfg, first_stage, last_stage,
                          data, elapsed) :
          run' = [call |-> [input |-> input, cfg |-> cfg,
                            first_stage |-> first_stage,
                            last_stage |-> last_stage, data |-> data]] @@ out
    /\ UNCHANGED <<stages, pipeline, extras, cached, diff, batch, cancel, screen, progress, channel, cfg_objects, stage_call, control, appended, callbacks>>

\* the run in `run` was a complete run from scratch that returned
FromScratch(r) ==
    /\ r.status = "returned"
    /\ r.call.first_stage = None /\ r.call.last_stage = None
    /\ r.call.data = None

\* a second call of process, given the data record the first, from-scratch
\* call returned, and the same configuration
ProcessCached(input, first_stage, last_stage, elapsed) ==
    /\ pipeline.status = "ok"
    /\ cached.status = "none"
    /\ FromScratch(run)
    /\ \E out \in Process(PipelineStages, input, run.call.cfg, first_stage,
                          last_stage, run.data, elapsed) :
          run' = [call |-> [input |-> input, cfg |-> run.call.cfg,
                            first_stage |-> first_stage,
                            last_stage |-> last_stage, data |-> run.data]] @@ out
    /\ cached' = run
    /\ UNCHANGED <<stages, pipeline, extras, diff, batch, cancel, screen, progress, channel, cfg_objects, stage_call, control, appended, callbacks>>

CallGetExtraStages ==
    /\ pipeline.status = "ok"
    /\ extras.status = "none" /\ run.status = "none"
    /\ \E first_stage, last_stage \in StageRefs(PipelineStages),
          available_inputs \in SUBSET Fields :
            GetExtraStages(first_stage, last_stage, available_inputs)

CallProcess ==
    /\ pipeline.status = "ok"
    /\ extras.status = "none" /\ run.status = "none"
    /\ \E input \in {None, Some(InputValue)},
          first_stage, last_stage \in StageRefs(PipelineStages),
          data \in {None} \cup { Some(d) : d \in DataRecords } :
            ProcessCall(input, DefaultCfg(PipelineStages), first_stage,
                        last_stage, data, Elapsed(PipelineStages))

CallProcessCached ==
    /\ pipeline.status = "ok"
    /\ cached.status = "none"
    /\ FromScratch(run)
    /\ \E input \in {None, run.call.input},
          first_stage \in StageRefs(PipelineStages) \ {None} :
            ProcessCached(input, first_stage, None, Elapsed(PipelineStages))

Next ==
    \/ DeclareStage
    \/ CreatePipeline
    \/ CallProcess
    \/ CallProcessCached

Spec == Init /\ [][Next]_vars

\* most field declarations of a stage list that is run with enabled flags
MaxConfiguredDecl == 3

\* a stage that declares a field is added to the list of a pipeline to run;
\* at most one stage of the list is disabled by default
DeclareConfiguredStage ==
    NewStage({ c \in DeclaringClasses(BOOLEAN) :
                 \/ c.enabled_by_default
                 \/ \A i \in DOMAIN stages : stages[i].enabled_by_default },
             MaxConfiguredDecl)

\* the configurations with at most one 'enabled' key; when a stage is
\* disabled by default, the key is that stage's
Cfgs(ps) ==
    {DefaultCfg(ps)} \cup
    { [DefaultCfg(ps) EXCEPT ![StageId(ps[k])] = Some(flag)] :
        <<k, flag>> \in { x \in (DOMAIN ps) \X BOOLEAN :
                           \A j \in DOMAIN ps :
                               ps[j].enabled_by_default \/ j = x[1] } }

\* calls of process with a configuration, given no data record, an empty one
\* or one that holds every field
CallProcessConfigured ==
    /\ pipeline.status = "ok"
    /\ extras.status = "none" /\ run.status = "none"
    /\ \E cfg \in Cfgs(PipelineStages),
          first_stage, last_stage \in StageRefs(PipelineStages),
          data \in {None, Some(EmptyRecord), Some([k \in Fields |-> PriorValue])} :
            ProcessCall(Some(InputValue), cfg, first_stage, last_stage, data,
                        Elapsed(PipelineStages))

NextEnabled ==
    \/ DeclareConfiguredStage
    \/ CreatePipeline
    \/ CallProcessConfigured

SpecEnabled == Init /\ [][NextEnabled]_vars

NextExtras ==
    \/ DeclareStage
    \/ CreatePipeline
    \/ CallGetExtraStages

SpecExtras == Init /\ [][NextExtras]_vars

\* the stage references "X+": the stage after the stage X
PlusRefs(ps) == { <<StageId(ps[k]), "+">> : k \in DOMAIN ps }

\* calls of process on any window, first_stage being None, an ID or "X+",
\* given no data record, an empty one or one that holds every field
CallProcessWindow ==
    /\ pipeline.status = "ok"
    /\ extras.status = "none" /\ run.status = "none"
    /\ \E input \in {None, Some(InputValue)},
          first_stage \in StageRefs(PipelineStages) \cup PlusRefs(PipelineStages),
          last_stage \in StageRefs(PipelineStages),
          data \in {None, Some(EmptyRecord), Some([k \in Fields |-> PriorValue])} :
            ProcessCall(input, DefaultCfg(PipelineStages), first_stage,
                        last_stage, data, Elapsed(PipelineStages))

\* another way to name the start of the latest call: the ID of the stage
\* after X for "X+", None for the first stage when no data record is given
Restated(call) ==
    IF call.first_stage # None /\ IsPlus(call.first_stage)
    THEN LET at == Find(PipelineStages, call.first_stage[1])
         IN  IF at < Len(PipelineStages)
             THEN Some(StageId(PipelineStages[at + 1]))
             ELSE call.first_stage
    ELSE IF /\ Len(PipelineStages) > 0
            /\ call.first_stage = Some(StageId(PipelineStages[1]))
            /\ call.data = None
    THEN None
    ELSE call.first_stage

\* a second call of process with the arguments of the first, its first_stage
\* named the other way
CallProcessRestated ==
    /\ pipeline.status = "ok"
    /\ cached.status = "none"
    /\ run.status # "none"
    /\ Restated(run.call) # run.call.first_stage
    /\ \E out \in Process(PipelineStages, run.call.input, run.call.cfg,
                          Restated(run.call), run.call.last_stage,
                          run.call.data, Elapsed(PipelineStages)) :
          run' = [call |-> [run.call EXCEPT !.first_stage = Restated(run.call)]]
                     @@ out
    /\ cached' = run
    /\ UNCHANGED <<stages, pipeline, extras, diff, batch, cancel, screen, progress, channel, cfg_objects, stage_call, control, appended, callbacks>>

NextWindow ==
    \/ DeclareStage
    \/ CreatePipeline
    \/ CallProcessWindow
    \/ CallProcessRestated

SpecWindow == Init /\ [][NextWindow]_vars

\* a stage that declares a field is added to the list of a pipeline to run;
\* the process method of at most one stage of the list returns other keys
\* than the declared outputs
DeclareStageReturning ==
    NewStage(DeclaringClasses({TRUE}) \cup
             { Returning(c, keys) :
                 <<c, keys>> \in
                     { x \in DeclaringClasses({TRUE}) \X (SUBSET Fields) :
                         /\ x[2] # x[1].outputs
                         /\ \A i \in DOMAIN stages :
                               "returns" \notin DOMAIN stages[i] } },
             MaxConfiguredDecl)

\* calls of process on any window, with or without the input, given no data
\* record or one that holds every field
CallProcessStages ==
    /\ pipeline.status = "ok"
    /\ extras.status = "none" /\ run.status = "none"
    /\ \E input \in {None, Some(InputValue)},
          first_stage, last_stage \in StageRefs(PipelineStages),
          data \in {None, Some([k \in Fields |-> PriorValue])} :
            ProcessCall(input, DefaultCfg(PipelineStages), first_stage,
                        last_stage, data, Elapsed(PipelineStages))

NextContract ==
    \/ DeclareStageReturning
    \/ CreatePipeline
    \/ CallProcessStages

SpecContract == Init /\ [][NextContract]_vars

\* the sub-mappings a configuration gives a stage: one parameter with one of
\* two values
SubMappings == { [k \in {"key"} |-> v] : v \in {"value1", "value2"} }

\* a stage that declares a field and is enabled by default is added to a
\* short list
DeclareFewStages == NewStage(DeclaringClasses({TRUE}), MaxConfiguredDecl)

\* the configurations of the stages of a pipeline
Configs(ps) ==
    UNION { [ids -> SubMappings] : ids \in SUBSET { StageId(ps[k]) : k \in DOMAIN ps } }

\* configurator.first_differing_stage(config1, config2)
CallFirstDifferingStage ==
    /\ pipeline.status = "ok"
    /\ diff.status = "none"
    /\ \E config1, config2 \in Configs(PipelineStages) :
          diff' = [status |-> "returned", config1 |-> config1, config2 |-> config2,
                   stage |-> first_differing_stage(PipelineStages, config1, config2)]
    /\ UNCHANGED <<stages, pipeline, extras, run, cached, batch, cancel, screen, progress, channel, cfg_objects, stage_call, control, appended, callbacks>>

NextDiff ==
    \/ DeclareFewStages
    \/ CreatePipeline
    \/ CallFirstDifferingStage

SpecDiff == Init /\ [][NextDiff]_vars

-----------------------------------------------------------------------------
(* The batch runner: the tasks of a batch are run one after the other on the
   pipeline, each from scratch or picking up the stored state of a task run
   before it *)

\* most tasks in a batch
MaxTasks == 2

\* the configurations of the tasks: empty, or one stage with a sub-mapping
TaskConfigs(ps) ==
    { c \in Configs(ps) :
        /\ Cardinality(DOMAIN c) <= 1
        /\ \A id \in DOMAIN c : c[id] = [k \in {"key"} |-> "value1"] }

\* a stage of the kind the batch tests declare, with inputs and outputs and
\* no consumed field, is added to a short list
DeclareTaskStage ==
    NewStage({ c \in DeclaringClasses({TRUE}) : c.consumes = {} },
             MaxConfiguredDecl)

\* a batch before its run
NewBatch ==
    [status |-> "selected", tasks |-> <<>>, stored |-> <<>>, step |-> 0,
     events |-> <<>>, failed |-> {}, success |-> None, screen |-> FALSE]

\* a task is selected for the batch: its configuration, the task before it
\* whose stored state it may pick up (0: none), and whether storing its
\* results fails
SelectTask ==
    /\ pipeline.status = "ok"
    /\ batch.status \in {"none", "selected"}
    /\ LET b == IF batch.status = "none" THEN NewBatch ELSE batch
       IN  /\ Len(b.tasks) < MaxTasks
           /\ \E config \in TaskConfigs(PipelineStages),
                 parent \in 0..Len(b.tasks),
                 defective \in BOOLEAN :
                   batch' = [b EXCEPT
                       !.tasks = Append(@, [config |-> config, parent |-> parent,
                                            defective |-> defective]),
                       !.stored = Append(@, None)]
    /\ UNCHANGED <<stages, pipeline, extras, run, cached, diff, cancel, screen, progress, channel, cfg_objects, stage_call, control, appended, callbacks>>

\* the stored state a task may pick up: None, or the configuration and the
\* data record stored for the task it names
PriorState(b, i) ==
    IF b.tasks[i].parent = 0 THEN None ELSE b.stored[b.tasks[i].parent]

\* a task that is run from scratch whatever has been stored
TaskStartFromScratch(ps, b, i) ==
    [pickup |-> 0, first_stage |-> None, data |-> None, copy |-> FALSE]

\* how a task is started: from scratch when there is no stored state or the
\* first differing stage is the first stage of the pipeline, else picking up
\* the stored data from the first differing stage on (a copy of the stored
\* state when no stage differs)
TaskStart(ps, b, i) ==
    IF PriorState(b, i) = None
    THEN [pickup |-> 0, first_stage |-> None, data |-> None, copy |-> FALSE]
    ELSE LET prior == PriorState(b, i)[1]
             d == first_differing_stage(ps, prior.config, b.tasks[i].config)
         IN  IF d = Some(StageId(ps[1]))
             THEN [pickup |-> 0, first_stage |-> None, data |-> None,
                   copy |-> FALSE]
             ELSE [pickup |-> b.tasks[i].parent, first_stage |-> d,
                   data |-> Some(prior.data), copy |-> d = None]

\* the outcomes of the pipeline for a task: the stored record when it is
\* copied, else those of Pipeline.process on the task's window
TaskProcess(ps, start) ==
    IF start.copy
    THEN {[status |-> "returned", data |-> start.data]}
    ELSE { [status |-> r.status, data |-> r.data] :
             r \in Process(ps, Some(InputValue), DefaultCfg(ps), start.first_stage,
                           None, start.data, Elapsed(ps)) }

\* a failed task whose batch run reports success
TaskFailedReportingSuccess(b, i, entered) ==
    [b EXCEPT
        !.events = entered \o <<[info |-> "error", task |-> i],
                                [info |-> "interrupted", task |-> i]>>,
        !.failed = @ \cup {i},
        !.step = i,
        !.status = "finished",
        !.success = Some(TRUE)]

\* a batch that goes on with the next task after a task has failed
TaskFailedGoingOn(b, i, entered) ==
    [b EXCEPT
        !.events = entered \o <<[info |-> "error", task |-> i]>>,
        !.failed = @ \cup {i},
        !.step = i,
        !.status = IF i = Len(b.tasks) THEN "finished" ELSE "running",
        !.success = IF i = Len(b.tasks) THEN Some(FALSE) ELSE None]

\* a task failed: the error is reported for the task, the batch run is
\* interrupted and its result is failure
TaskFailed(b, i, entered) ==
    [b EXCEPT
        !.events = entered \o <<[info |-> "error", task |-> i],
                                [info |-> "interrupted", task |-> i]>>,
        !.failed = @ \cup {i},
        !.step = i,
        !.status = "finished",
        !.success = Some(FALSE)]

\* a task succeeded: its results are stored, and the batch run goes on with
\* the next task or ends
TaskCompleted(b, i, entered, data) ==
    [b EXCEPT
        !.events = entered \o <<[info |-> "storing", task |-> i],
                                [info |-> "completed", task |-> i]>>,
        !.stored[i] = Some([config |-> b.tasks[i].config, data |-> data[1]]),
        !.step = i,
        !.status = IF i = Len(b.tasks) THEN "finished" ELSE "running",
        !.success = IF i = Len(b.tasks) THEN Some(TRUE) ELSE None]

\* RunScreen.run_batch: once the batch run has returned, its result becomes
\* the screen's success (False until then)
run_batch(b) ==
    IF b.status = "finished" THEN [b EXCEPT !.screen = b.success[1]] ELSE b

\* one round of the loop of the batch run: the next task is entered, started,
\* processed and stored
RunTask ==
    /\ batch.status \in {"selected", "running"}
    /\ batch.step < Len(batch.tasks)
    /\ LET i == batch.step + 1
           start == TaskStart(PipelineStages, batch, i)
           entered == batch.events \o
                        <<[info |-> "enter", task |-> i],
                          [info |-> "start", task |-> i, pickup |-> start.pickup,
                           first_stage |-> start.first_stage, data |-> start.data]>>
       IN  \E r \in TaskProcess(PipelineStages, start) :
              batch' = run_batch(
                           IF r.status # "returned" \/ batch.tasks[i].defective
                           THEN TaskFailed(batch, i, entered)
                           ELSE TaskCompleted(batch, i, entered, r.data))
    /\ UNCHANGED <<stages, pipeline, extras, run, cached, diff, cancel, screen, progress, channel, cfg_objects, stage_call, control, appended, callbacks>>

NextBatch ==
    \/ DeclareTaskStage
    \/ CreatePipeline
    \/ SelectTask
    \/ RunTask

SpecBatch == Init /\ [][NextBatch]_vars

\* RunScreen.action_cancel, confirmed: the batch is asked to cancel while a
\* stage of the running call of process is executing; the events of the call
\* are its timeline, and the request arrives after the event at `during`
RequestCancel ==
    /\ run.status # "none"
    /\ cancel.status = "none"
    /\ \E n \in DOMAIN run.log :
          /\ run.log[n][1] = "process"
          /\ cancel' = [status |-> "requested", during |-> n]
    /\ UNCHANGED <<stages, pipeline, extras, run, cached, diff, batch, screen, progress, channel, cfg_objects, stage_call, control, appended, callbacks>>

NextCancel ==
    \/ DeclareFewStages
    \/ CreatePipeline
    \/ CallProcessStages
    \/ RequestCancel

SpecCancel == Init /\ [][NextCancel]_vars

-----------------------------------------------------------------------------
(* RunScreen (src/repype/textual/run.py): one collapsible container per
   task; handle_new_status mounts, reuses and removes labels and the
   progress bar *)

\* most status updates a screen is sent
MaxUpdates == 4

\* "self.intermediate = None", and the task path before any task was entered
NoLabel == 0
NoTask == 0

\* RunScreen.__init__, compose and on_mount for the tasks 1..MaxTasks
MountedScreen ==
    [status |-> "mounted",
     containers |-> [t \in 1..MaxTasks |-> <<>>],
     collapsed |-> [t \in 1..MaxTasks |-> TRUE],
     intermediate |-> NoLabel,
     bar |-> [progress |-> 0, total |-> None],
     current_task_path |-> NoTask,
     finished_tasks |-> {},
     labels |-> 0,
     handled |-> <<>>,
     raised |-> FALSE]

\* the screen is pushed
PushScreen ==
    /\ screen.status = "none"
    /\ screen' = MountedScreen
    /\ UNCHANGED <<stages, pipeline, extras, run, cached, diff, batch, cancel, progress, channel, cfg_objects, stage_call, control, appended, callbacks>>

\* status payloads: None, a text, or a dictionary with 'info' and, for some,
\* 'task'
NoStatus == [kind |-> "none"]
Text(t) == [kind |-> "text", text |-> t]
Info(info, task) == [kind |-> "dict", info |-> info, task |-> task]
Progress(step, max_steps) ==
    [kind |-> "dict", info |-> "progress", task |-> NoTask,
     step |-> step, max_steps |-> max_steps]

\* the updates a screen is sent: permanent and intermediate ones
Updates ==
    { [status |-> st, intermediate |-> FALSE] :
        st \in {Text("update 1"), Info("error", NoTask)}
               \cup { Info("enter", t) : t \in 1..MaxTasks }
               \cup { Info("completed", t) : t \in 1..MaxTasks } }
    \cup
    { [status |-> st, intermediate |-> TRUE] :
        st \in {NoStatus, Text("intermediate 1"), Progress(0, 1),
                Info("storing", NoTask)} }

\* the widgets
Label(id, text) == [kind |-> "label", id |-> id, text |-> text]
Bar == [kind |-> "bar"]

\* a remove() that leaves the widget mounted
RemoveNothing(sc, widget) == sc

\* widget.remove() for the widget given
RemoveWidget(sc, widget) ==
    [sc EXCEPT !.containers =
        [t \in DOMAIN @ |->
            SelectSeq(@[t], LAMBDA w :
                ~(w.kind = widget.kind /\ (w.kind = "label" => w.id = widget.id)))]]

\* label.update(text)
UpdateLabel(sc, id, text) ==
    [sc EXCEPT !.containers =
        [t \in DOMAIN @ |->
            [n \in DOMAIN @[t] |->
                IF @[t][n].kind = "label" /\ @[t][n].id = id
                THEN Label(id, text) ELSE @[t][n]]]]

\* task_container.mount(widget); with no task container the call raises
Mount(sc, task, widget) ==
    IF sc.raised THEN sc
    ELSE IF task = NoTask THEN [sc EXCEPT !.raised = TRUE]
    ELSE [sc EXCEPT !.containers[task] = Append(@, widget)]

\* the text a status is shown with
Render(st) ==
    IF st.kind = "none" THEN "None"
    ELSE IF st.kind = "text" THEN st.text
    ELSE CASE st.info = "storing" -> "Storing results..."
           [] st.info = "completed" -> "Results have been stored"
           [] st.info = "error" -> "An error occurred:"
           [] st.info = "progress" -> "details"
           [] st.info = "interrupted" -> "Batch run interrupted"
           [] OTHER -> "dict"

\* the part of handle_new_status that resolves the status ("Resolve
\* dictionary-based status updates" and "Handle all remaining status
\* updates") for the label chosen
ResolveStatus(sc, task, label, st) ==
    IF st.kind = "dict" /\ st.info = "enter" THEN sc
    ELSE IF st.kind = "dict" /\ st.info = "completed"
    THEN [UpdateLabel(sc, label, Render(st)) EXCEPT
             !.finished_tasks = @ \cup {st.task}]
    ELSE IF st.kind = "dict" /\ st.info = "error"
    THEN LET sc1 == UpdateLabel(sc, label, Render(st))
         IN  [Mount(sc1, task, Label(sc1.labels + 1, "traceback")) EXCEPT
                 !.labels = @ + 1]
    ELSE IF st.kind = "dict" /\ st.info = "progress"
    THEN [UpdateLabel(sc, label, Render(st)) EXCEPT
             !.bar = [progress |-> st.step, total |-> Some(st.max_steps)]]
    ELSE UpdateLabel(sc, label, Render(st))

\* "if status is None and self.intermediate"
ClearsIntermediate(sc, u) ==
    u.intermediate /\ u.status = NoStatus /\ sc.intermediate # NoLabel

\* RunScreen.handle_new_status(parents, positions, status, intermediate)
handle_new_status(sc, u) ==
    LET task == IF u.status.kind = "dict" /\ u.status.task # NoTask
                THEN u.status.task ELSE sc.current_task_path
        sc0 == [sc EXCEPT
                   !.handled = Append(@, u),
                   !.current_task_path = task,
                   !.collapsed = [t \in DOMAIN @ |-> IF t = task THEN FALSE ELSE @[t]]]
    IN  IF ClearsIntermediate(sc0, u)
        THEN [RemoveWidget(RemoveWidget(sc0, Label(sc0.intermediate, "")), Bar)
                 EXCEPT !.intermediate = NoLabel]
        ELSE IF u.intermediate /\ sc0.intermediate = NoLabel
        THEN LET id == sc0.labels + 1
                 sc1 == [sc0 EXCEPT !.labels = id, !.intermediate = id,
                                    !.bar = [progress |-> 0, total |-> None]]
                 sc2 == Mount(Mount(sc1, task, Label(id, "")), task, Bar)
             IN  IF sc2.raised THEN sc2 ELSE ResolveStatus(sc2, task, id, u.status)
        ELSE IF u.intermediate
        THEN ResolveStatus(sc0, task, sc0.intermediate, u.status)
        ELSE IF sc0.intermediate # NoLabel
        THEN LET sc1 == [RemoveWidget(sc0, Bar)
                            EXCEPT !.intermediate = NoLabel]
             IN  ResolveStatus(sc1, task, sc0.intermediate, u.status)
        ELSE LET id == sc0.labels + 1
                 sc1 == Mount([sc0 EXCEPT !.labels = id], task, Label(id, ""))
             IN  IF sc1.raised THEN sc1 ELSE ResolveStatus(sc1, task, id, u.status)

\* the status reader hands the screen the next update
HandleNewStatus ==
    /\ screen.status = "mounted"
    /\ ~screen.raised
    /\ Len(screen.handled) < MaxUpdates
    /\ \E u \in Updates : screen' = handle_new_status(screen, u)
    /\ UNCHANGED <<stages, pipeline, extras, run, cached, diff, batch, cancel, progress, channel, cfg_objects, stage_call, control, appended, callbacks>>

NextScreen ==
    \/ PushScreen
    \/ HandleNewStatus

SpecScreen == Init /\ [][NextScreen]_vars

-----------------------------------------------------------------------------
(* The progress wrapper of the status channel, read by a RunScreen *)

\* longest sequence wrapped
MaxItems == 3

\* the sequences wrapped
RECURSIVE ItemSeqs(_)
ItemSeqs(n) ==
    IF n = 0 THEN {<<>>}
    ELSE ItemSeqs(n - 1) \cup
         { Append(q, v) : q \in { r \in ItemSeqs(n - 1) : Len(r) = n - 1 },
                          v \in {"a", "b"} }

\* the update that clears the ephemeral slot
ClearUpdate == [status |-> NoStatus, intermediate |-> TRUE]

\* a task is entered on the screen before anything is reported for it
EnterTask ==
    /\ screen.status = "mounted"
    /\ screen.handled = <<>>
    /\ \E t \in 1..MaxTasks :
          screen' = handle_new_status(screen, [status |-> Info("enter", t),
                                               intermediate |-> FALSE])
    /\ UNCHANGED <<stages, pipeline, extras, run, cached, diff, batch, cancel,
                   progress, channel, cfg_objects, stage_call, control, appended, callbacks>>

\* progress(status, sequence) is called and the loop over it begins
StartProgress ==
    /\ screen.status = "mounted"
    /\ Len(screen.handled) = 1
    /\ progress.status = "none"
    /\ \E items \in ItemSeqs(MaxItems) :
          progress' = [status |-> "iterating", items |-> items,
                       yielded |-> <<>>, emitted |-> <<>>]
    /\ UNCHANGED <<stages, pipeline, extras, run, cached, diff, batch, cancel,
                   screen, channel, cfg_objects, stage_call, control, appended, callbacks>>

\* the wrapper emits an update, which the screen handles
Emit(p, u) == [p EXCEPT !.emitted = Append(@, u)]

\* a wrapper that clears the slot only when the sequence is exhausted
CloseProgressAtEndOnly(p, status) ==
    IF status = "ended" THEN [Emit(p, ClearUpdate) EXCEPT !.status = status]
    ELSE [p EXCEPT !.status = status]

\* the iteration is over, normally or because the loop body raised: the
\* ephemeral slot is cleared
CloseProgress(p, status) == [Emit(p, ClearUpdate) EXCEPT !.status = status]

\* the loop asks for the next item: an intermediate update with the step and
\* the number of steps is emitted and the item is yielded
ProgressNext ==
    /\ progress.status = "iterating"
    /\ Len(progress.yielded) < Len(progress.items)
    /\ LET u == [status |-> Progress(Len(progress.yielded), Len(progress.items)),
                 intermediate |-> TRUE]
       IN  /\ progress' = [Emit(progress, u) EXCEPT
                              !.yielded = Append(@, progress.items[Len(@) + 1])]
           /\ screen' = handle_new_status(screen, u)
    /\ UNCHANGED <<stages, pipeline, extras, run, cached, diff, batch, cancel, channel, cfg_objects, stage_call, control, appended, callbacks>>

\* the closing of the wrapper reaches the screen
ProgressClosed(status) ==
    /\ progress' = CloseProgress(progress, status)
    /\ screen' = IF Len(progress'.emitted) > Len(progress.emitted)
                 THEN handle_new_status(screen, ClearUpdate) ELSE screen
    /\ UNCHANGED <<stages, pipeline, extras, run, cached, diff, batch, cancel, channel, cfg_objects, stage_call, control, appended, callbacks>>

\* the sequence is exhausted
ProgressEnd ==
    /\ progress.status = "iterating"
    /\ Len(progress.yielded) = Len(progress.items)
    /\ ProgressClosed("ended")

\* the loop body raises while it holds an item
ProgressRaise ==
    /\ progress.status = "iterating"
    /\ Len(progress.yielded) > 0
    /\ ProgressClosed("raised")

NextProgress ==
    \/ PushScreen
    \/ EnterTask
    \/ StartProgress
    \/ ProgressNext
    \/ ProgressEnd
    \/ ProgressRaise

SpecProgress == Init /\ [][NextProgress]_vars

-----------------------------------------------------------------------------
(* The status channel between a writer and its readers *)

\* most updates written to a channel
MaxWrites == 3

\* the readers attached to the channel
Readers == {"reader 1", "reader 2"}

\* the updates the writer issues in one context
ChannelUpdates ==
    { [status |-> Text(t), intermediate |-> FALSE] : t \in {"update 1", "update 2"} }
    \cup {[status |-> Text("intermediate 1"), intermediate |-> TRUE], ClearUpdate}

\* the channel is created and the readers attach
OpenChannel ==
    /\ channel.status = "none"
    /\ channel' = [status |-> "open", written |-> <<>>,
                   cursor |-> [r \in Readers |-> 0],
                   delivered |-> [r \in Readers |-> <<>>]]
    /\ UNCHANGED <<stages, pipeline, extras, run, cached, diff, batch, cancel,
                   screen, progress, cfg_objects, stage_call, control, appended, callbacks>>

\* the writer issues an update; it does not wait for any reader
WriteUpdate ==
    /\ channel.status = "open"
    /\ Len(channel.written) < MaxWrites
    /\ \E u \in ChannelUpdates :
          channel' = [channel EXCEPT !.written = Append(@, u)]
    /\ UNCHANGED <<stages, pipeline, extras, run, cached, diff, batch, cancel,
                   screen, progress, cfg_objects, stage_call, control, appended, callbacks>>

\* a reader that is handed the latest update only
HandedLatestOnly(written, cursor) == <<written[Len(written)]>>

\* the updates from position k on that a reader still finds in the store:
\* every permanent update, and the ephemeral slot when it is the latest
\* update (earlier intermediate updates were replaced)
RECURSIVE HandedFrom(_, _)
HandedFrom(written, k) ==
    IF k > Len(written) THEN <<>>
    ELSE (IF ~written[k].intermediate \/ k = Len(written)
          THEN <<written[k]>> ELSE <<>>) \o HandedFrom(written, k + 1)

\* the new updates a reader is handed, in order
Handed(written, cursor) == HandedFrom(written, cursor + 1)

\* a reader notices the change of the store: StatusReaderAdapter hands every
\* new update to the screen, one call of handle_new_status each
ReadUpdates ==
    /\ channel.status = "open"
    /\ \E r \in Readers :
          /\ channel.cursor[r] < Len(channel.written)
          /\ channel' = [channel EXCEPT
                 !.delivered[r] = @ \o Handed(channel.written, channel.cursor[r]),
                 !.cursor[r] = Len(channel.written)]
    /\ UNCHANGED <<stages, pipeline, extras, run, cached, diff, batch, cancel,
                   screen, progress, cfg_objects, stage_call, control, appended, callbacks>>

NextChannel ==
    \/ OpenChannel
    \/ WriteUpdate
    \/ ReadUpdates

SpecChannel == Init /\ [][NextChannel]_vars

-----------------------------------------------------------------------------
(* the configuration objects of a call of process: the caller's object, the
   copy process works on, and the mapping each stage's process receives. A
   sub-mapping is None (empty) or Some(flag) (it holds 'enabled') *)

\* the objects when process is called with the configuration cfg
CallerObjects(cfg) == [o \in {"caller"} |-> cfg]

\* process goes on with the caller's object itself
SameCfg(objects) ==
    [working |-> "caller", objects |-> objects]

\* "cfg = cfg.copy()" of Pipeline.process
CopyCfg(objects) ==
    [working |-> "copy",
     objects |-> [o \in {"caller", "copy"} |-> objects["caller"]]]

\* "clean_cfg.pop('enabled', None)": the sub-mapping without 'enabled'
PopEnabled(sub) == None

\* the stage pops 'enabled' from the sub-mapping of the configuration itself
StageCfgInPlace(f, id) ==
    [f EXCEPT !.objects[f.working][id] = PopEnabled(@),
              !.received = Append(@, [stage |-> id, object |-> f.working,
                                      cfg |-> PopEnabled(f.objects[f.working][id])])]

\* "clean_cfg = cfg.copy()", the pop and "cfg = clean_cfg" of Stage.__call__
StageCfg(f, id) ==
    [f EXCEPT !.received = Append(@, [stage |-> id, object |-> "clean_cfg",
                                      cfg |-> PopEnabled(f.objects[f.working][id])])]

\* the stages whose process was called, from event k of the log on
RECURSIVE StageCfgs(_, _, _)
StageCfgs(f, log, k) ==
    IF k > Len(log) THEN f
    ELSE IF log[k][1] = "process"
    THEN StageCfgs(StageCfg(f, log[k][2]), log, k + 1)
    ELSE StageCfgs(f, log, k + 1)

\* the configuration objects after the call with the outcome r; returned is
\* the object in the returned tuple
ProcessCfg(cfg, r) ==
    LET f == StageCfgs(CopyCfg(CallerObjects(cfg)) @@ [received |-> <<>>],
                       r.log, 1)
    IN  [status |-> "ok",
         returned |-> IF r.status = "returned" THEN Some(f.working) ELSE None]
        @@ f

\* a call of process with a configuration object
CallProcessOnConfig ==
    /\ pipeline.status = "ok"
    /\ run.status = "none"
    /\ \E cfg \in Cfgs(PipelineStages),
          first_stage, last_stage \in StageRefs(PipelineStages),
          data \in {None, Some(EmptyRecord), Some([k \in Fields |-> PriorValue])} :
          \E out \in Process(PipelineStages, Some(InputValue), cfg, first_stage,
                             last_stage, data, Elapsed(PipelineStages)) :
             /\ run' = [call |-> [input |-> Some(InputValue), cfg |-> cfg,
                                  first_stage |-> first_stage,
                                  last_stage |-> last_stage, data |-> data]] @@ out
             /\ cfg_objects' = ProcessCfg(cfg, out)
    /\ UNCHANGED <<stages, pipeline, extras, cached, diff, batch, cancel, screen, progress, channel, stage_call, control, appended, callbacks>>

NextConfig ==
    \/ DeclareConfiguredStage
    \/ CreatePipeline
    \/ CallProcessOnConfig

SpecConfig == Init /\ [][NextConfig]_vars

-----------------------------------------------------------------------------
(* direct calls of a stage *)

\* the stage classes constructed for a direct call: any declaration, the
\* process method returning the declared outputs, other keys, or raising
CalledClasses ==
    LET declared == StageClasses({TRUE, FALSE})
    IN  declared
        \cup { Returning(c, keys) :
                 <<c, keys>> \in { x \in declared \X (SUBSET Fields) :
                                     x[2] # x[1].outputs } }
        \cup { Raising(c) : c \in declared }

\* a stage is constructed
ConstructStage ==
    /\ stage_call.status = "none"
    /\ Len(stages) = 0
    /\ \E c \in CalledClasses :
          /\ DeclSize(c) <= MaxConfiguredDecl
          /\ stages' = <<c>>
    /\ UNCHANGED <<pipeline, extras, run, cached, diff, batch, cancel, screen, progress, channel, cfg_objects, stage_call, control, appended, callbacks>>

\* stage(data, cfg): Stage.__call__ on a data record and a configuration
CallStage ==
    /\ stage_call.status = "none"
    /\ Len(stages) = 1
    /\ \E data \in DataRecords, cfg \in Cfgs(stages) :
          stage_call' = [status |-> "called", stage |-> stages[1],
                         data |-> data, cfg |-> cfg,
                         result |-> StageCall(stages[1], data, cfg, MaxElapsed)]
    /\ UNCHANGED <<stages, pipeline, extras, run, cached, diff, batch, cancel, screen, progress, channel, cfg_objects, control, appended, callbacks>>

NextStageCall ==
    \/ ConstructStage
    \/ CallStage

SpecStageCall == Init /\ [][NextStageCall]_vars

-----------------------------------------------------------------------------
(* a ProcessingControl stepped over the pipeline, as the stage loop of
   process does *)

\* "ctrl = ProcessingControl(first_stage, last_stage)"
NewControl ==
    /\ pipeline.status = "ok"
    /\ control.status = "none"
    /\ \E first_stage, last_stage \in StageRefs(PipelineStages) :
          control' = [status |-> "stepping",
                      ctrl |-> ProcessingControl(first_stage, last_stage),
                      answers |-> <<>>]
    /\ UNCHANGED <<stages, pipeline, extras, run, cached, diff, batch, cancel, screen, progress, channel, cfg_objects, stage_call, appended, callbacks>>

\* "for stage in self.stages: ctrl.step(stage.id)": the next stage of the list
StepControl ==
    /\ control.status = "stepping"
    /\ Len(control.answers) < Len(PipelineStages)
    /\ LET stage == PipelineStages[Len(control.answers) + 1]
           r == CtrlStep(control.ctrl, Some(StageId(stage)))
       IN  control' = [control EXCEPT !.ctrl = r.ctrl,
                                      !.answers = Append(@, r.do_step)]
    /\ UNCHANGED <<stages, pipeline, extras, run, cached, diff, batch, cancel, screen, progress, channel, cfg_objects, stage_call, appended, callbacks>>

NextControl ==
    \/ DeclareFewStages
    \/ CreatePipeline
    \/ NewControl
    \/ StepControl

SpecControl == Init /\ [][NextControl]_vars

-----------------------------------------------------------------------------
(* Pipeline.append on a pipeline built by explicit insertion. A stage object
   is a record of its identity and its ID; positions are counted from 0 as in
   the code, the list itself from 1 *)

\* most calls of append on one pipeline
MaxAppends == 3

\* the stage IDs of the appended stages
AppendIds == {"a", "b", "c"}

\* the stage objects handed to append: two objects of each ID
StageObjects == { [object |-> n, id |-> id] : n \in {1, 2}, id \in AppendIds }

\* the values of 'after': None, a str (a stage ID, "d" being the ID of no
\* stage object) or an int (a position)
AfterTargets ==
    {[kind |-> "None"]}
        \cup { [kind |-> "str", id |-> id] : id \in AppendIds \cup {"d"} }
        \cup { [kind |-> "int", position |-> n] : n \in -2 .. MaxAppends }

\* Pipeline.find, counting from 0 as the code does
FindIndex(sts, stage_id) ==
    LET at == { k \in DOMAIN sts : sts[k].id = stage_id }
    IN  IF at = {} THEN NotFound ELSE Min(at) - 1

\* a check for the stage object only
SameObjectAdded(sts, stage) ==
    IF \E k \in DOMAIN sts : sts[k] = stage
    THEN "stage already added"
    ELSE "no"

\* the loop over stage2: the message of the RuntimeError raised, or "no"
AlreadyAdded(sts, stage) ==
    LET at == { k \in DOMAIN sts : sts[k] = stage \/ sts[k].id = stage.id }
    IN  IF at = {} THEN "no"
        ELSE IF sts[Min(at)] = stage THEN "stage already added"
        ELSE "stage with ID already added"

\* list.insert(i, stage) for 0 <= i <= len
InsertAt(sts, i, stage) ==
    SubSeq(sts, 1, i) \o <<stage>> \o SubSeq(sts, i + 1, Len(sts))

\* Pipeline.append(stage, after): the outcome, the list after it and the
\* value returned
PipelineAppend(sts, stage, after) ==
    IF AlreadyAdded(sts, stage) # "no"
    THEN [status |-> "RuntimeError", message |-> AlreadyAdded(sts, stage),
          stages |-> sts, index |-> None]
    ELSE IF after.kind = "None"
    THEN [status |-> "returned", message |-> "",
          stages |-> Append(sts, stage), index |-> Some(Len(sts))]
    ELSE LET pos == IF after.kind = "str" THEN FindIndex(sts, after.id)
                    ELSE after.position
         IN  IF ~(-1 <= pos /\ pos < Len(sts))
             THEN [status |-> "AssertionError", message |-> "",
                   stages |-> sts, index |-> None]
             ELSE [status |-> "returned", message |-> "",
                   stages |-> InsertAt(sts, pos + 1, stage),
                   index |-> Some(pos + 1)]

\* Pipeline()
NewPipeline ==
    /\ appended.status = "none"
    /\ appended' = [status |-> "new", stages |-> <<>>, calls |-> 0]
    /\ UNCHANGED <<stages, pipeline, extras, run, cached, diff, batch, cancel, screen, progress, channel, cfg_objects, stage_call, control, callbacks>>

\* pipeline.append(stage, after)
AppendStage ==
    /\ appended.status # "none"
    /\ appended.calls < MaxAppends
    /\ \E stage \in StageObjects, after \in AfterTargets :
          LET r == PipelineAppend(appended.stages, stage, after)
          IN  appended' = [status |-> r.status, message |-> r.message,
                           stages |-> r.stages, index |-> r.index,
                           calls |-> appended.calls + 1,
                           stage |-> stage, after |-> after,
                           before |-> appended.stages]
    /\ UNCHANGED <<stages, pipeline, extras, run, cached, diff, batch, cancel, screen, progress, channel, cfg_objects, stage_call, control, callbacks>>

NextAppend ==
    \/ NewPipeline
    \/ AppendStage

SpecAppend == Init /\ [][NextAppend]_vars

-----------------------------------------------------------------------------
(* the callbacks of the stages: Stage.add_callback, Stage._callback and the
   invocations a call of process causes *)

\* the names a callback is registered under
CallbackNames == {"start", "end", "skip", "after"}

\* "self._callbacks = {}" of every stage of the pipeline
NoCallbacks(ps) ==
    [k \in DOMAIN ps |-> [start |-> <<>>, end |-> <<>>, skip |-> <<>>]]

\* a registration that takes 'after' for 'end' alone
add_callback_after_as_end(registered, name, cb) ==
    IF name = "after"
    THEN [registered EXCEPT !.end = Append(@, cb)]
    ELSE [registered EXCEPT ![name] = Append(@, cb)]

\* Stage.add_callback(name, cb) on the callbacks of one stage
add_callback(registered, name, cb) ==
    IF name = "after"
    THEN [registered EXCEPT !.end = Append(@, cb), !.skip = Append(@, cb)]
    ELSE [registered EXCEPT ![name] = Append(@, cb)]

\* Stage._callback(name): the invocations <<cb, name, stage ID>>, in the
\* order of registration
Callback(registered, name, id) ==
    [n \in DOMAIN registered[name] |-> <<registered[name][n], name, id>>]

\* the invocations the events of a call of process cause, from event k on
RECURSIVE Invocations(_, _, _, _)
Invocations(ps, registry, log, k) ==
    IF k > Len(log) THEN <<>>
    ELSE IF log[k][1] = "process"
    THEN Invocations(ps, registry, log, k + 1)
    ELSE Callback(registry[Find(ps, log[k][2])], log[k][1], log[k][2])
             \o Invocations(ps, registry, log, k + 1)

\* stage.add_callback(name, cb) on a stage of the pipeline: the one handler
\* registered before process is called
AddCallback ==
    /\ pipeline.status = "ok"
    /\ run.status = "none"
    /\ callbacks.status = "none"
    /\ \E k \in DOMAIN PipelineStages, name \in CallbackNames :
          LET cb == 1
          IN  callbacks' =
                 [status |-> "registered",
                  registry |-> [NoCallbacks(PipelineStages) EXCEPT
                                   ![k] = add_callback(@, name, cb)],
                  handlers |-> <<[stage |-> k, name |-> name]>>,
                  invoked |-> <<>>]
    /\ UNCHANGED <<stages, pipeline, extras, run, cached, diff, batch, cancel, screen, progress, channel, cfg_objects, stage_call, control, appended>>

\* a call of process on the pipeline whose stages have callbacks: on any
\* window given a data record that holds every field, or from the beginning
\* given none
CallProcessWithCallbacks ==
    /\ pipeline.status = "ok"
    /\ run.status = "none"
    /\ callbacks.status = "registered"
    /\ \E first_stage, last_stage \in StageRefs(PipelineStages) :
       \E data \in {Some([k \in Fields |-> PriorValue])}
                     \cup (IF first_stage = None THEN {None} ELSE {}) :
          \E out \in Process(PipelineStages, Some(InputValue),
                             DefaultCfg(PipelineStages), first_stage,
                             last_stage, data, Elapsed(PipelineStages)) :
             /\ run' = [call |-> [input |-> Some(InputValue),
                                  cfg |-> DefaultCfg(PipelineStages),
                                  first_stage |-> first_stage,
                                  last_stage |-> last_stage, data |-> data]] @@ out
             /\ callbacks' =
                   [callbacks EXCEPT
                       !.status = "called",
                       !.invoked = Invocations(PipelineStages, callbacks.registry,
                                               out.log, 1)]
    /\ UNCHANGED <<stages, pipeline, extras, cached, diff, batch, cancel, screen, progress, channel, cfg_objects, stage_call, control, appended>>

NextCallbacks ==
    \/ DeclareConfiguredStage
    \/ CreatePipeline
    \/ AddCallback
    \/ CallProcessWithCallbacks

SpecCallbacks == Init /\ [][NextCallbacks]_vars

NextResolver ==
    \/ DeclareAnyStage
    \/ CreatePipeline

SpecResolver == Init /\ [][NextResolver]_vars

-----------------------------------------------------------------------------
(* Properties of create_pipeline, checked under SpecResolver *)

\* the fields available after the first k stages of the list ps: the seed,
\* plus the outputs and minus the consumes of these stages, in order
RECURSIVE AvailableAfter(_, _)
AvailableAfter(ps, k) ==
    IF k = 0 THEN {InputField}
    ELSE (AvailableAfter(ps, k - 1) \cup ps[k].outputs) \ ps[k].consumes

AvailableBefore(ps, k) == AvailableAfter(ps, k - 1)

\* ps can be executed in its order: every stage finds its inputs
ValidOrder(ps) ==
    \A k \in DOMAIN ps : ps[k].inputs \subseteq AvailableBefore(ps, k)

Resolved == pipeline.status = "ok"

\* the positions (of the declared list) not yet placed before step k
RemainingBefore(k) ==
    { i \in DOMAIN stages : \A j \in 1..(k - 1) : pipeline.order[j] # i }

\* C1: in a returned pipeline every stage's inputs (consumes included) are
\* available when the stage is reached, replaying outputs and consumes in
\* order; no stage placed after a consumer of a field has that field among
\* its inputs
C1_InputsAvailableInOrder ==
    Resolved =>
        /\ ValidOrder(PipelineStages)
        /\ \A j, k \in DOMAIN PipelineStages :
              j < k => PipelineStages[j].consumes \cap PipelineStages[k].inputs = {}

\* a pipeline of MaxStages stages, reordered by the resolver, with a consumer
C1_Witness ==
    /\ Resolved
    /\ Len(stages) = MaxStages
    /\ pipeline.order # [i \in DOMAIN stages |-> i]
    /\ \E k \in DOMAIN stages :
          /\ stages[k].consumes # {}
          /\ stages[k].consumes # {InputField}

\* the orders of the declared list
Orders(sts) ==
    { p \in [DOMAIN sts -> DOMAIN sts] :
        \A i, j \in DOMAIN sts : p[i] = p[j] => i = j }

Satisfiable(sts) ==
    \E p \in Orders(sts) : ValidOrder([k \in DOMAIN sts |-> sts[p[k]]])

\* C2 (as claimed): a stage list with unique IDs and disjoint outputs that
\* has a total order satisfying input availability is resolved into a pipeline
C2_SatisfiableIsResolved ==
    ( /\ pipeline.status # "none"
      /\ UniqueIds(stages)
      /\ UniqueOutputs(stages)
      /\ Satisfiable(stages) ) => Resolved

IsPermutation(order, n) ==
    /\ Len(order) = n
    /\ \A i \in 1..n : \E k \in DOMAIN order : order[k] = i
    /\ \A j, k \in DOMAIN order : order[j] = order[k] => j = k

\* C3: a returned pipeline holds every stage of the input list exactly once;
\* the resolver fails exactly when stages remain of which none is a
\* candidate, and reports these remaining stages and the available fields
C3_NoStageDroppedOrDuplicated ==
    /\ Resolved => IsPermutation(pipeline.order, Len(stages))
    /\ pipeline.status = "failed to resolve total ordering" =>
          /\ Len(pipeline.remaining) > 0
          /\ Range(pipeline.remaining) = RemainingBefore(Len(pipeline.order) + 1)
          /\ pipeline.available =
                AvailableAfter(PipelineStages, Len(pipeline.order))
          /\ \A i \in Range(pipeline.remaining) :
                \/ ~(stages[i].inputs \subseteq pipeline.available)
                \/ \E j \in Range(pipeline.remaining) \ {i} :
                      /\ stages[i].consumes # {}
                      /\ stages[i].consumes \subseteq stages[j].inputs

\* the resolver failed after it had placed a stage
C3_Witness ==
    /\ pipeline.status = "failed to resolve total ordering"
    /\ Len(pipeline.order) > 0
    /\ Len(pipeline.remaining) > 1

\* C4 (as claimed): a stage is placed only when no other remaining stage
\* requires any field it consumes
C4_NoRemainingStageNeedsConsumed ==
    \A k \in DOMAIN pipeline.order :
        \A t \in RemainingBefore(k) \ {pipeline.order[k]} :
            stages[t].inputs \cap stages[pipeline.order[k]].consumes = {}

C6_AmbiguousListsAreRejected ==
    ( /\ pipeline.status # "none"
      /\ \/ \E i, j \in DOMAIN stages :
               i # j /\ StageId(stages[i]) = StageId(stages[j])
         \/ \E i, j \in DOMAIN stages :
               i # j /\ stages[i].outputs \cap stages[j].outputs # {}
         \/ \E i \in DOMAIN stages : InputField \in stages[i].outputs )
    => /\ pipeline.status \in {"ambiguous stage identifiers", "ambiguous outputs"}
       /\ pipeline.order = <<>>

\* a list rejected only because a stage declares the seed field as an output
C6_Witness ==
    /\ pipeline.status = "ambiguous outputs"
    /\ \E i \in DOMAIN stages : InputField \in stages[i].outputs
    /\ \A i, j \in DOMAIN stages :
          i # j => stages[i].outputs \cap stages[j].outputs = {}

-----------------------------------------------------------------------------
(* Properties of Pipeline.process and Pipeline.get_extra_stages *)

\* the record the first, from-scratch run returned was handed to the latest run
Resumed == cached.status = "returned"

LastStageId == StageId(PipelineStages[Len(PipelineStages)])

\* C7 (as claimed): a from-scratch run followed by a run that starts at the
\* last stage, given the record the first run returned and the same
\* configuration, returns that same record. Stated for the first runs whose
\* record still holds 'input': the second run then starts from the same
\* record whether or not it is handed the input again
C7_ResumeAtLastStageReturnsSameRecord ==
    ( /\ Resumed
      /\ run.call.first_stage = Some(LastStageId)
      /\ InputField \in DOMAIN cached.data[1] )
        => (run.status = "returned" /\ run.data = cached.data)

\* the positions of the stages from first_stage to last_stage, None standing
\* for the beginning and the end of the pipeline
WindowOf(first_stage, last_stage) ==
    LET lo == IF first_stage = None THEN 1
              ELSE Find(PipelineStages, first_stage[1])
        hi == IF last_stage = None THEN Len(PipelineStages)
              ELSE Find(PipelineStages, last_stage[1])
    IN  { k \in DOMAIN PipelineStages : lo <= k /\ k <= hi }

\* first_stage is not after last_stage
WellFormedWindow(first_stage, last_stage) ==
    \/ first_stage = None
    \/ last_stage = None
    \/ Find(PipelineStages, first_stage[1]) <= Find(PipelineStages, last_stage[1])

PositionsOf(ids) ==
    { k \in DOMAIN PipelineStages : StageId(PipelineStages[k]) \in Range(ids) }

\* every input of the stages at positions P is the seed, given, or an output
\* of a stage at a position of P
InputsCovered(P, given) ==
    \A k \in P :
        PipelineStages[k].inputs \subseteq
            given \cup {InputField} \cup UNION { PipelineStages[j].outputs : j \in P }

\* the positions for which a ProcessingControl of the two references
\* answers that the stage is to be processed
ControlWindow(first_stage, last_stage) ==
    LET steps == StepAll(PipelineStages, 1,
                         ProcessingControl(first_stage, last_stage))
    IN  { k \in DOMAIN PipelineStages : steps[k] }

\* C8: get_extra_stages returns, without repetition, exactly the least set
\* of stages outside the window that covers, together with the window and
\* the available fields, every input of the window and of itself; the
\* window is the stages from first_stage to last_stage when first_stage is
\* not after last_stage
C8_ExtraStagesAreLeastCover ==
    extras.status # "none" =>
    LET W == ControlWindow(extras.first_stage, extras.last_stage)
        E == PositionsOf(extras.extra_stages)
    IN  /\ WellFormedWindow(extras.first_stage, extras.last_stage) =>
              W = WindowOf(extras.first_stage, extras.last_stage)
        /\ extras.status = "ok"
        /\ Len(extras.extra_stages) = Cardinality(E)
        /\ E \cap W = {}
        /\ InputsCovered(W \cup E, extras.available_inputs)
        /\ \A X \in SUBSET (DOMAIN PipelineStages \ W) :
              InputsCovered(W \cup X, extras.available_inputs) => E \subseteq X

\* the pipeline [A -> {x}, B(x) -> {y}, C(y)], the window [C, C] and only
\* the seed available: A and B are the extra stages
C8_Witness ==
    /\ extras.status = "ok"
    /\ Len(PipelineStages) = 3
    /\ PipelineStages[1].outputs = {"x"}
    /\ PipelineStages[2].inputs = {"x"} /\ PipelineStages[2].outputs = {"y"}
    /\ PipelineStages[3].inputs = {"y"}
    /\ extras.first_stage = Some(StageId(PipelineStages[3]))
    /\ extras.last_stage = Some(StageId(PipelineStages[3]))
    /\ extras.available_inputs = {InputField}
    /\ PositionsOf(extras.extra_stages) = {1, 2}

\* the record of the call holds the field 'input' when the stages start
InputPresent(call) ==
    \/ call.input # None
    \/ call.data # None /\ InputField \in DOMAIN call.data[1]

\* C9: with every stage enabled and 'input' in the record, no executed stage
\* (of the window or backfilled) misses one of its inputs in the record:
\* every stage that is started gets to its processing logic
C9_ExecutedStagesFindInputs ==
    (run.status # "none" /\ InputPresent(run.call)) =>
        /\ run.status # "KeyError"
        /\ \A i \in DOMAIN run.log :
              run.log[i][1] = "start" =>
                  /\ i < Len(run.log)
                  /\ run.log[i + 1] = <<"process", run.log[i][2]>>

\* a partial run that backfilled two stages, one of which consumes a field
C9_Witness ==
    /\ run.status = "returned"
    /\ ~run.early
    /\ run.first_stage # None
    /\ Len(run.extra_stages) = 2
    /\ run.call.data # None
    /\ \E k \in PositionsOf(run.extra_stages) :
          PipelineStages[k].consumes # {}

\* the enabled flag of the stage at position k in the latest run
Flag(k) ==
    IF run.call.cfg[StageId(PipelineStages[k])] = None
    THEN PipelineStages[k].enabled_by_default
    ELSE run.call.cfg[StageId(PipelineStages[k])][1]

\* the stage at position k is inside the window or backfilled
Selected(k) ==
    \/ k \in WindowOf(run.first_stage, run.call.last_stage)
    \/ k \in PositionsOf(run.extra_stages)

Logged(event, k) ==
    \E i \in DOMAIN run.log : run.log[i] = <<event, StageId(PipelineStages[k])>>

\* C10: in any run a stage is started or processed only when it is selected
\* (window or backfill) and enabled, and gets a skip notification only when
\* it is not; in a run that handles its stages and returns, every stage is
\* either processed or gets a skip notification; a disabled stage is never
\* processed and every elapsed time recorded for it is zero
C10_ProcessedIffSelectedAndEnabled ==
    run.status # "none" =>
        \A k \in DOMAIN PipelineStages :
            /\ Logged("start", k) => (Selected(k) /\ Flag(k))
            /\ Logged("process", k) => (Selected(k) /\ Flag(k))
            /\ Logged("skip", k) => ~(Selected(k) /\ Flag(k))
            /\ (run.status = "returned" /\ ~run.early) =>
                  (Logged("process", k) \/ Logged("skip", k))
            /\ ~Flag(k) =>
                  /\ ~Logged("process", k)
                  /\ \A t \in run.timings :
                        t[1] = StageId(PipelineStages[k]) => t[2] = 0

\* a run with a stage disabled by its configuration inside the window (zero
\* elapsed time recorded), a processed stage that took time and a stage
\* outside the window
C10_Witness ==
    /\ run.status = "returned"
    /\ ~run.early
    /\ \E k \in DOMAIN PipelineStages :
          /\ PipelineStages[k].enabled_by_default
          /\ run.call.cfg[StageId(PipelineStages[k])] = Some(FALSE)
          /\ Selected(k)
          /\ <<StageId(PipelineStages[k]), 0>> \in run.timings
    /\ \E k \in DOMAIN PipelineStages :
          Logged("process", k) /\ \E t \in run.timings : t[2] > 0
    /\ \E k \in DOMAIN PipelineStages : ~Selected(k)

-----------------------------------------------------------------------------
(* The stage loop of Pipeline.process *)

\* the events of the log that end the handling of a stage
Finishing(e) == e[1] \in {"end", "skip"}

\* the IDs of the stages in the order in which their handling ended
HandledOrder(log) ==
    LET done == SelectSeq(log, Finishing)
    IN  [i \in DOMAIN done |-> done[i][2]]

\* a stage that is started is processed and ended before anything else is
\* logged, and nothing is processed or ended that was not started
Uninterleaved(log) ==
    \A i \in DOMAIN log :
        /\ log[i][1] = "start" =>
              /\ i + 2 <= Len(log)
              /\ log[i + 1] = <<"process", log[i][2]>>
              /\ log[i + 2] = <<"end", log[i][2]>>
        /\ log[i][1] = "process" => (i > 1 /\ log[i - 1] = <<"start", log[i][2]>>)
        /\ log[i][1] = "end" => (i > 1 /\ log[i - 1] = <<"process", log[i][2]>>)

\* C11: in a call of process that passes the window checks and in which no
\* stage fails, the stages are handled one after the other in pipeline
\* order, each exactly once (processed or skip-notified), and no stage is
\* started before the stage before it has ended or been skipped
C11_StagesHandledInPipelineOrder ==
    (run.status = "returned" /\ ~run.early) =>
        /\ HandledOrder(run.log) =
              [k \in DOMAIN PipelineStages |-> StageId(PipelineStages[k])]
        /\ Uninterleaved(run.log)

\* a run of three stages: one skipped before the window, one processed and
\* one disabled inside the window
C11_Witness ==
    /\ run.status = "returned"
    /\ ~run.early
    /\ Len(PipelineStages) = 3
    /\ run.first_stage = Some(StageId(PipelineStages[2]))
    /\ run.extra_stages = <<>>
    /\ Logged("process", 2)
    /\ ~Flag(3)

-----------------------------------------------------------------------------
(* The window checks of Pipeline.process, checked under SpecWindow *)

\* the position of the stage a reference names: the stage after X for "X+"
PositionOf(ref) ==
    IF IsPlus(ref) THEN Find(PipelineStages, ref[1]) + 1
    ELSE Find(PipelineStages, ref[1])

\* the reference names a stage of the pipeline
NamesStage(ref) == ref # None /\ PositionOf(ref) \in DOMAIN PipelineStages

\* first_stage of the call is positioned after its last_stage
FirstAfterLast(call) ==
    /\ NamesStage(call.first_stage)
    /\ NamesStage(call.last_stage)
    /\ PositionOf(call.first_stage) > PositionOf(call.last_stage)

\* C12: a call whose first_stage is positioned after its last_stage returns
\* the data argument unchanged (None when none was given, the input is not
\* put into it) and no timings, and no stage is executed or notified
C12_FirstAfterLastReturnsUnchanged ==
    (run.status # "none" /\ FirstAfterLast(run.call)) =>
        /\ run.status = "returned"
        /\ run.data = run.call.data
        /\ run.timings = {}
        /\ run.log = <<>>

\* such a call, handed an input and an empty data record, with first_stage
\* given as "X+"
C12_Witness ==
    /\ run.status = "returned"
    /\ FirstAfterLast(run.call)
    /\ IsPlus(run.call.first_stage)
    /\ run.call.input # None
    /\ run.call.data = Some(EmptyRecord)
    /\ run.data = Some(EmptyRecord)

\* first_stage of the call names a stage other than the first of the pipeline
StartsLater(call) ==
    NamesStage(call.first_stage) /\ PositionOf(call.first_stage) > 1

\* the two runs have the same outcome: status, data record, timings, the
\* stages processed and skipped, and the stages backfilled
SameOutcome(r1, r2) ==
    /\ r1.status = r2.status
    /\ r1.data = r2.data
    /\ r1.timings = r2.timings
    /\ r1.log = r2.log
    /\ r1.early = r2.early
    /\ Range(r1.extra_stages) = Range(r2.extra_stages)

\* C13 (as claimed): a call whose first_stage names a stage other than the
\* first, given no data record, fails before any stage is executed or
\* notified
C13_PartialRunWithoutDataFails ==
    (run.status # "none" /\ StartsLater(run.call) /\ run.call.data = None) =>
        (run.status = "ValueError" /\ run.log = <<>>)

\* C13 (amended): such a call fails before any stage is executed or notified
\* unless first_stage is positioned after last_stage; and a call whose
\* first_stage names the first stage, given no data record, has the outcome
\* of the same call with first_stage unset
C13_PartialRunWithoutDataFailsUnlessEmpty ==
    /\ ( /\ run.status # "none"
         /\ StartsLater(run.call)
         /\ run.call.data = None
         /\ ~FirstAfterLast(run.call) ) =>
            (run.status = "ValueError" /\ run.log = <<>>)
    /\ ( /\ cached.status # "none"
         /\ cached.call.first_stage = Some(StageId(PipelineStages[1]))
         /\ cached.call.data = None ) =>
            /\ run.call.first_stage = None
            /\ SameOutcome(cached, run)

\* a partial run without data that failed, its first_stage given as "X+"
\* and its last_stage being the last stage
C13_Witness ==
    /\ run.status = "ValueError"
    /\ IsPlus(run.call.first_stage)
    /\ run.call.last_stage = Some(LastStageId)
    /\ run.call.input # None

\* a run from the first stage, named by its ID, without data that processed
\* three stages, and the same run with first_stage unset
C13_WitnessFromFirstStage ==
    /\ cached.status = "returned"
    /\ cached.call.first_stage = Some(StageId(PipelineStages[1]))
    /\ cached.call.data = None
    /\ Len(PipelineStages) = 3
    /\ run.status = "returned"
    /\ \A k \in DOMAIN PipelineStages : Logged("process", k)

\* the reference is "X+" for a stage X that has a successor
PlusWithSuccessor(ref) ==
    /\ ref # None /\ IsPlus(ref)
    /\ Find(PipelineStages, ref[1]) < Len(PipelineStages)

\* C14: a call with first_stage = "X+", X having the successor Y, executes
\* and skips the same stages and has the same outcome as the call with
\* first_stage = Y's ID and the same other arguments
C14_PlusNamesTheSuccessor ==
    (cached.status # "none" /\ PlusWithSuccessor(cached.call.first_stage)) =>
        /\ run.call =
              [cached.call EXCEPT !.first_stage =
                  Some(StageId(PipelineStages[
                      Find(PipelineStages, cached.call.first_stage[1]) + 1]))]
        /\ SameOutcome(cached, run)
        /\ run.first_stage = cached.first_stage

\* a run from "X+" with a data record that skipped X, processed its successor
\* and backfilled nothing, and the same run from the successor's ID
C14_Witness ==
    /\ cached.status = "returned"
    /\ PlusWithSuccessor(cached.call.first_stage)
    /\ ~cached.early
    /\ cached.call.data # None
    /\ Len(PipelineStages) = 3
    /\ cached.call.first_stage[1] = StageId(PipelineStages[2])
    /\ cached.log[Len(cached.log)] = <<"end", StageId(PipelineStages[3])>>
    /\ run.status = "returned"

-----------------------------------------------------------------------------
(* The output contract of Stage.__call__ and the propagation of failures,
   checked under SpecContract *)

\* the latest run ended with the given failure in the stage at position k
FailedAt(status, k) ==
    /\ run.status = status
    /\ Len(run.log) > 0
    /\ run.log[Len(run.log)][2] = StageId(PipelineStages[k])
    /\ run.log[Len(run.log)][1] # "end"

\* C15: a stage whose process method was called fails with a contract
\* violation if and only if the keys of the mapping it returned differ from
\* its declared outputs (a key too many or a key missing); when the keys
\* equal the declared outputs the stage succeeds
C15_ContractViolationIffKeysDiffer ==
    run.status # "none" =>
        \A k \in DOMAIN PipelineStages :
            Logged("process", k) =>
                /\ FailedAt("AssertionError", k) <=>
                      ReturnedKeys(PipelineStages[k]) # PipelineStages[k].outputs
                /\ ReturnedKeys(PipelineStages[k]) = PipelineStages[k].outputs =>
                      /\ Logged("end", k)
                      /\ \A status \in {"KeyError", "AssertionError"} :
                            ~FailedAt(status, k)

\* a run in which a stage succeeded and the next stage returned every
\* declared output and one key more
C15_Witness ==
    /\ run.status = "AssertionError"
    /\ Len(PipelineStages) >= 2
    /\ Logged("end", 1)
    /\ Logged("process", 2)
    /\ PipelineStages[2].outputs # {}
    /\ PipelineStages[2].outputs \subseteq ReturnedKeys(PipelineStages[2])
    /\ ReturnedKeys(PipelineStages[2]) # PipelineStages[2].outputs
    /\ FailedAt("AssertionError", 2)

\* a run in which a stage returned fewer keys than its declared outputs
C15_WitnessMissingKey ==
    /\ run.status = "AssertionError"
    /\ \E k \in DOMAIN PipelineStages :
          /\ Logged("process", k)
          /\ ReturnedKeys(PipelineStages[k]) # PipelineStages[k].outputs
          /\ ReturnedKeys(PipelineStages[k]) \subseteq PipelineStages[k].outputs
          /\ FailedAt("AssertionError", k)

\* the stage at position k was started and did not reach its end
Failed(k) == Logged("start", k) /\ ~Logged("end", k)

\* no callback of the stage at position k was fired and it was not processed
Untouched(k) ==
    \A i \in DOMAIN run.log : run.log[i][2] # StageId(PipelineStages[k])

\* C16: when a stage fails during process, the failure leaves process at
\* once: process returns no result, the failing stage is the last one
\* handled, and no stage after it is processed or skip-notified
C16_FailurePropagatesImmediately ==
    run.status # "none" =>
        \A k \in DOMAIN PipelineStages :
            Failed(k) =>
                /\ run.status \in {"KeyError", "AssertionError"}
                /\ FailedAt(run.status, k)
                /\ run.timings \subseteq
                      { <<StageId(PipelineStages[j]), dt>> :
                          j \in 1..(k - 1), dt \in 0..MaxElapsed }
                /\ \A j \in DOMAIN PipelineStages : j > k => Untouched(j)

\* a run of three stages whose second stage failed after the first was
\* handled, with the third stage inside the window
C16_Witness ==
    /\ run.status = "AssertionError"
    /\ Len(PipelineStages) = 3
    /\ run.call.last_stage = None
    /\ Logged("end", 1)
    /\ Failed(2)
    /\ Untouched(3)

\* a run in which a stage failed because the record lacks one of its inputs
C16_WitnessKeyError ==
    /\ run.status = "KeyError"
    /\ \E k \in DOMAIN PipelineStages : Failed(k) /\ ~Logged("process", k)

-----------------------------------------------------------------------------
(* Configurator.first_differing_stage, checked under SpecDiff *)

\* the positions of the stages whose ID is in exactly one of the two
\* configurations, or in both with sub-mappings that are not equal
DifferingPositions(config1, config2) ==
    { k \in DOMAIN PipelineStages :
        LET id == StageId(PipelineStages[k])
        IN  IF id \in DOMAIN config1 \cap DOMAIN config2
            THEN config1[id] # config2[id]
            ELSE id \in DOMAIN config1 \cup DOMAIN config2 }

\* C17: first_differing_stage(c1, c2) returns the earliest stage in pipeline
\* order whose ID is in exactly one configuration or whose sub-mappings
\* differ, and None when there is no such stage; (c2, c1) gives the same
\* result; for three stages and configurations that differ under the second
\* stage only, the result is the second stage
C17_FirstDifferingStageIsEarliestAndSymmetric ==
    diff.status = "returned" =>
        LET D == DifferingPositions(diff.config1, diff.config2)
        IN  /\ D = {} => diff.stage = None
            /\ D # {} => diff.stage = Some(StageId(PipelineStages[Min(D)]))
            /\ first_differing_stage(PipelineStages, diff.config2, diff.config1)
                  = diff.stage
            /\ (Len(PipelineStages) = 3 /\ D = {2}) =>
                  diff.stage = Some(StageId(PipelineStages[2]))

\* three stages, two configurations that agree on the first stage and differ
\* later: the second stage is in the second configuration only, the third
\* has another sub-mapping
C17_Witness ==
    /\ diff.status = "returned"
    /\ Len(PipelineStages) = 3
    /\ StageId(PipelineStages[1]) \in DOMAIN diff.config1 \cap DOMAIN diff.config2
    /\ DifferingPositions(diff.config1, diff.config2) = {2, 3}
    /\ StageId(PipelineStages[2]) \in DOMAIN diff.config2 \ DOMAIN diff.config1
    /\ diff.stage = Some(StageId(PipelineStages[2]))

\* configurations of three stages that differ under the second stage only
C17_WitnessSecondOfThree ==
    /\ diff.status = "returned"
    /\ Len(PipelineStages) = 3
    /\ DOMAIN diff.config1 = DOMAIN diff.config2
    /\ DifferingPositions(diff.config1, diff.config2) = {2}
    /\ diff.stage = Some(StageId(PipelineStages[2]))

\* configurations with no differing stage
C17_WitnessNone ==
    /\ diff.status = "returned"
    /\ Len(PipelineStages) = 3
    /\ diff.config1 = diff.config2
    /\ DOMAIN diff.config1 # {}
    /\ diff.stage = None

-----------------------------------------------------------------------------
(* The batch runner, checked under SpecBatch *)

\* the batch run has reported the event for task i
Reported(info, i) ==
    \E n \in DOMAIN batch.events :
        batch.events[n].info = info /\ batch.events[n].task = i

\* the event that tells how task i was started
StartOf(i) ==
    batch.events[CHOOSE n \in DOMAIN batch.events :
                    batch.events[n].info = "start" /\ batch.events[n].task = i]

\* "Starting from scratch": nothing is picked up and no first stage is set
StartsFromScratch(e) == e.pickup = 0 /\ e.first_stage = None /\ e.data = None

\* the first stage whose configuration differs between the stored state of
\* task i and the task
FirstDifferingOf(i) ==
    first_differing_stage(PipelineStages, PriorState(batch, i)[1].config,
                          batch.tasks[i].config)

\* C18: a task is run from scratch when there is no stored state or the
\* first differing stage is the first stage of the pipeline; otherwise it
\* picks up the stored data from the first differing stage on
C18_ScratchOrPickUpFromFirstDifferingStage ==
    batch.status # "none" =>
        \A i \in DOMAIN batch.tasks :
            Reported("start", i) =>
                IF PriorState(batch, i) = None
                THEN StartsFromScratch(StartOf(i))
                ELSE IF FirstDifferingOf(i) = Some(StageId(PipelineStages[1]))
                THEN StartsFromScratch(StartOf(i))
                ELSE /\ ~StartsFromScratch(StartOf(i))
                     /\ StartOf(i).pickup = batch.tasks[i].parent
                     /\ StartOf(i).first_stage = FirstDifferingOf(i)
                     /\ StartOf(i).data = Some(PriorState(batch, i)[1].data)

\* a task whose configuration differs from the stored one under the second
\* stage only picked up the stored state at the second stage and completed
C18_Witness ==
    /\ batch.status = "finished"
    /\ Len(batch.tasks) = 2
    /\ Len(PipelineStages) >= 2
    /\ batch.tasks[2].parent = 1
    /\ batch.tasks[1].config = EmptyRecord
    /\ DOMAIN batch.tasks[2].config = {StageId(PipelineStages[2])}
    /\ Reported("completed", 2)
    /\ StartsFromScratch(StartOf(1))
    /\ StartOf(2).pickup = 1
    /\ StartOf(2).first_stage = Some(StageId(PipelineStages[2]))

\* a task whose configuration differs from the stored one under the first
\* stage was run from scratch
C18_WitnessFirstStageDiffers ==
    /\ batch.status = "finished"
    /\ Len(batch.tasks) = 2
    /\ Len(PipelineStages) >= 2
    /\ batch.tasks[2].parent = 1
    /\ PriorState(batch, 2) # None
    /\ DOMAIN batch.tasks[2].config = {StageId(PipelineStages[1])}
    /\ Reported("start", 2)
    /\ StartsFromScratch(StartOf(2))

C20_SuccessIffEveryTaskSucceeded ==
    /\ batch.status = "finished" =>
          /\ batch.success \in {Some(TRUE), Some(FALSE)}
          /\ batch.success = Some(TRUE) <=>
                \A i \in DOMAIN batch.tasks :
                    Reported("completed", i) /\ i \notin batch.failed
          /\ batch.screen = batch.success[1]
    /\ batch.status \in {"selected", "running"} =>
          batch.success = None /\ ~batch.screen

\* two tasks succeeded and the batch run reported success
C20_Witness ==
    /\ batch.status = "finished"
    /\ Len(batch.tasks) = 2
    /\ Reported("completed", 1)
    /\ Reported("completed", 2)
    /\ batch.success = Some(TRUE)
    /\ batch.screen

\* the second of two tasks failed and the batch run reported failure
C20_WitnessFailure ==
    /\ batch.status = "finished"
    /\ Len(batch.tasks) = 2
    /\ Reported("completed", 1)
    /\ batch.failed = {2}
    /\ batch.success = Some(FALSE)
    /\ ~batch.screen

-----------------------------------------------------------------------------
(* Cancellation, checked under SpecCancel *)

-----------------------------------------------------------------------------
(* RunScreen.handle_new_status, checked under SpecScreen *)

\* the updates handled so far belong to task 1: it was entered first and no
\* other task is named
OneTask ==
    /\ screen.status = "mounted"
    /\ ~screen.raised
    /\ Len(screen.handled) > 0
    /\ screen.handled[1] = [status |-> Info("enter", 1), intermediate |-> FALSE]
    /\ \A n \in DOMAIN screen.handled :
          screen.handled[n].status.kind = "dict" =>
              screen.handled[n].status.task \in {NoTask, 1}

\* the permanent updates handled so far, in issue order
PermanentUpdates == SelectSeq(screen.handled, LAMBDA u : ~u.intermediate)

\* the labels of a task's container that are not the intermediate label
PermanentLabels(t) ==
    SelectSeq(screen.containers[t],
              LAMBDA w : w.kind = "label" /\ w.id # screen.intermediate)

\* a task's container holds the intermediate label and the progress bar
EphemeralShown(t) ==
    /\ screen.intermediate # NoLabel
    /\ \E n \in DOMAIN screen.containers[t] :
          /\ screen.containers[t][n].kind = "label"
          /\ screen.containers[t][n].id = screen.intermediate
    /\ \E n \in DOMAIN screen.containers[t] : screen.containers[t][n] = Bar

\* no intermediate label and no progress bar in a task's container
NothingEphemeral(t) ==
    /\ screen.intermediate = NoLabel
    /\ \A n \in DOMAIN screen.containers[t] : screen.containers[t][n] # Bar

\* the text a permanent update is shown with ('enter' leaves its label empty)
ShownText(st) ==
    IF st.kind = "dict" /\ st.info = "enter" THEN "" ELSE Render(st)

\* C22: for the updates of one task, the view holds exactly one label per
\* permanent update, in issue order, and the ephemeral label with its
\* progress bar if and only if the latest update was a non-empty intermediate
\* one; no intermediate update stays as a permanent label
C22_OneLabelPerPermanentUpdate ==
    OneTask =>
        LET last == screen.handled[Len(screen.handled)]
        IN  /\ Len(PermanentLabels(1)) = Len(PermanentUpdates)
            /\ \A n \in DOMAIN PermanentLabels(1) :
                  n \in DOMAIN PermanentUpdates =>
                      PermanentLabels(1)[n].text = ShownText(PermanentUpdates[n].status)
            /\ IF last.intermediate /\ last.status # NoStatus
               THEN EphemeralShown(1)
               ELSE NothingEphemeral(1)

\* the updates of the claim's example were handled: u1, i1 (intermediate),
\* None (intermediate), u2 left the labels of the permanent updates only
C22_ExampleHandled ==
    /\ OneTask
    /\ Len(screen.handled) = 4
    /\ screen.handled[2] = [status |-> Text("update 1"), intermediate |-> FALSE]
    /\ screen.handled[3] = [status |-> Text("intermediate 1"), intermediate |-> TRUE]
    /\ screen.handled[4] = [status |-> NoStatus, intermediate |-> TRUE]
    /\ screen.containers[1] = <<Label(1, ""), Label(2, "update 1")>>
    /\ NothingEphemeral(1)

-----------------------------------------------------------------------------
(* The progress wrapper, checked under SpecProgress *)

\* the updates of the wrapper that carry a step
StepUpdates == SelectSeq(progress.emitted, LAMBDA u : u # ClearUpdate)

\* C23: a sequence of n items wrapped with progress yields exactly its items
\* in order, with one intermediate update per item that carries the steps
\* 0, 1, ..., n-1 and max_steps = n, and the ephemeral slot is cleared once
\* when the iteration ends, normally or because the loop body raised
C23_ProgressYieldsItemsAndClears ==
    progress.status # "none" =>
        /\ progress.yielded = SubSeq(progress.items, 1, Len(progress.yielded))
        /\ progress.status = "ended" => progress.yielded = progress.items
        /\ Len(StepUpdates) = Len(progress.yielded)
        /\ \A k \in DOMAIN StepUpdates :
              /\ StepUpdates[k].intermediate
              /\ StepUpdates[k].status.step = k - 1
              /\ StepUpdates[k].status.max_steps = Len(progress.items)
              /\ progress.emitted[k] = StepUpdates[k]
        /\ progress.status = "iterating" => progress.emitted = StepUpdates
        /\ progress.status \in {"ended", "raised"} =>
              progress.emitted = Append(StepUpdates, ClearUpdate)

\* three items were yielded with the steps 0, 1, 2 of 3 and the slot was
\* cleared
C23_Witness ==
    /\ progress.status = "ended"
    /\ Len(progress.items) = 3
    /\ progress.yielded = progress.items
    /\ Len(progress.emitted) = 4
    /\ progress.emitted[1].status.step = 0
    /\ progress.emitted[3].status.step = 2
    /\ progress.emitted[3].status.max_steps = 3
    /\ progress.emitted[4] = ClearUpdate

\* the loop body raised at the second of three items and the slot was cleared
C23_WitnessRaised ==
    /\ progress.status = "raised"
    /\ Len(progress.items) = 3
    /\ Len(progress.yielded) = 2
    /\ progress.emitted[Len(progress.emitted)] = ClearUpdate

-----------------------------------------------------------------------------
(* The status channel, checked under SpecChannel *)

\* the permanent updates of a sequence of updates
Permanent(updates) == SelectSeq(updates, LAMBDA u : ~u.intermediate)

\* a is b with some of its members left out
RECURSIVE IsSubsequence(_, _)
IsSubsequence(a, b) ==
    IF a = <<>> THEN TRUE
    ELSE IF b = <<>> THEN FALSE
    ELSE IF Head(a) = Head(b) THEN IsSubsequence(Tail(a), Tail(b))
    ELSE IsSubsequence(a, Tail(b))

IsPrefix(a, b) == Len(a) <= Len(b) /\ a = SubSeq(b, 1, Len(a))

\* C24: every reader is handed the updates of a context in the order the
\* writer issued them; it is handed every permanent update written up to its
\* last look, none twice and none out of order; intermediate updates may be
\* left out but never change places with another update; two readers are
\* handed the same permanent updates
C24_ReadersSeeWriterOrder ==
    channel.status = "open" =>
        /\ \A r \in Readers :
              /\ Permanent(channel.delivered[r]) =
                    Permanent(SubSeq(channel.written, 1, channel.cursor[r]))
              /\ IsSubsequence(channel.delivered[r],
                               SubSeq(channel.written, 1, channel.cursor[r]))
        /\ \A r1, r2 \in Readers :
              \/ IsPrefix(Permanent(channel.delivered[r1]),
                          Permanent(channel.delivered[r2]))
              \/ IsPrefix(Permanent(channel.delivered[r2]),
                          Permanent(channel.delivered[r1]))

\* a reader that looked after every update and one that looked once at the
\* end: the second was not handed the intermediate update, and both were
\* handed the two permanent updates
C24_Witness ==
    /\ channel.status = "open"
    /\ Len(channel.written) = 3
    /\ ~channel.written[1].intermediate
    /\ channel.written[2].intermediate
    /\ ~channel.written[3].intermediate
    /\ channel.written[1] # channel.written[3]
    /\ channel.delivered["reader 1"] = channel.written
    /\ channel.delivered["reader 2"] = <<channel.written[1], channel.written[3]>>

-----------------------------------------------------------------------------
\* C25: process never mutates the caller's configuration object: it works on
\* a copy taken at the start of the call and returns that copy, and the
\* process of each executed stage receives a mapping of its own, a copy of its
\* sub-mapping without 'enabled', while the sub-mapping itself keeps the key

\* the IDs of the stages whose process was called, in order
ProcessedIds(r) ==
    LET ev == SelectSeq(r.log, LAMBDA e : e[1] = "process")
    IN  [k \in DOMAIN ev |-> ev[k][2]]

C25_ProcessWorksOnACopy ==
    cfg_objects.status = "ok" =>
        /\ cfg_objects.objects["caller"] = run.call.cfg
        /\ cfg_objects.working = "copy" /\ cfg_objects.working # "caller"
        /\ cfg_objects.objects[cfg_objects.working] = run.call.cfg
        /\ run.status = "returned" => cfg_objects.returned = Some("copy")
        /\ [k \in DOMAIN cfg_objects.received |-> cfg_objects.received[k].stage]
              = ProcessedIds(run)
        /\ \A k \in DOMAIN cfg_objects.received :
              /\ cfg_objects.received[k].object \notin DOMAIN cfg_objects.objects
              /\ cfg_objects.received[k].cfg = None

\* two stages ran, each with 'enabled' set in its sub-mapping
C25_Witness ==
    /\ cfg_objects.status = "ok" /\ run.status = "returned"
    /\ Len(cfg_objects.received) >= 1
    /\ \E k \in DOMAIN cfg_objects.received :
          run.call.cfg[cfg_objects.received[k].stage] = Some(TRUE)

\* the call returned early, before any stage: the copy is returned
C25_WitnessEarly ==
    /\ cfg_objects.status = "ok" /\ run.status = "returned" /\ run.early
    /\ cfg_objects.returned = Some("copy")
    /\ \E id \in DOMAIN run.call.cfg : run.call.cfg[id] # None

-----------------------------------------------------------------------------
\* C26: after an enabled stage was executed successfully, the keys of the data
\* record are (the keys before, with the stage's outputs) without the stage's
\* consumes, and every field that is neither an output nor consumed has the
\* value it had; a skipped stage leaves the record unchanged

\* the call ended with these events
CallEvents(events) ==
    stage_call.status = "called" /\ stage_call.result.events = events

C26_SuccessfulStageUpdatesRecord ==
    /\ CallEvents(<<"start", "process", "end">>) =>
          LET stage  == stage_call.stage
              before == stage_call.data
              after  == stage_call.result.data
          IN  /\ stage_call.result.status = "ok"
              /\ DOMAIN after = (DOMAIN before \cup stage.outputs) \ stage.consumes
              /\ \A k \in DOMAIN before \ (stage.outputs \cup stage.consumes) :
                    after[k] = before[k]
    /\ CallEvents(<<"skip">>) => stage_call.result.data = stage_call.data

\* a stage that consumes a field, produces another and leaves a third alone
C26_Witness ==
    /\ CallEvents(<<"start", "process", "end">>)
    /\ stage_call.stage.consumes # {}
    /\ stage_call.stage.outputs \ stage_call.stage.consumes # {}
    /\ DOMAIN stage_call.data \ stage_call.stage.inputs # {}
    /\ DOMAIN stage_call.result.data # DOMAIN stage_call.data

\* a disabled stage called on a record that holds its inputs
C26_WitnessSkipped ==
    /\ CallEvents(<<"skip">>)
    /\ stage_call.stage.consumes # {}
    /\ stage_call.stage.inputs \subseteq DOMAIN stage_call.data

-----------------------------------------------------------------------------
\* C27: when a stage fails, because its process raises or because it returns
\* other keys than its declared outputs, the data record is as it was before
\* the stage started (nothing merged, nothing deleted) and no 'end' callback
\* is fired

C27_FailedStageLeavesRecord ==
    (stage_call.status = "called" /\ stage_call.result.status # "ok") =>
        /\ stage_call.result.data = stage_call.data
        /\ \A k \in DOMAIN stage_call.result.events :
              stage_call.result.events[k] # "end"
        /\ stage_call.result.dt = 0

\* process returned a key that is no output, of a stage that consumes a field
C27_Witness ==
    /\ stage_call.status = "called"
    /\ stage_call.result.status = "AssertionError"
    /\ stage_call.stage.consumes # {}
    /\ ReturnedKeys(stage_call.stage) \ DOMAIN stage_call.data # {}

\* process raised, in a stage that consumes a field and declares an output
C27_WitnessRaised ==
    /\ stage_call.status = "called"
    /\ stage_call.result.status = "Exception"
    /\ stage_call.stage.consumes # {}
    /\ stage_call.stage.outputs # {}

-----------------------------------------------------------------------------
\* C28: in every pipeline create_pipeline returns, no stage's outputs overlap
\* its inputs (consumes included): a stage list with a stage whose outputs
\* intersect its own inputs is never resolved into a pipeline

\* the stage's outputs intersect its inputs
OutputsOverlapInputs(stage) == stage.outputs \cap stage.inputs # {}

C28_NoResolvedStageFeedsItself ==
    /\ pipeline.status = "ok" =>
          \A k \in DOMAIN stages : ~OutputsOverlapInputs(stages[k])
    /\ (pipeline.status # "none"
          /\ \E k \in DOMAIN stages : OutputsOverlapInputs(stages[k]))
       => pipeline.status \in {"ambiguous outputs",
                               "failed to resolve total ordering",
                               "ambiguous stage identifiers"}

\* a stage produces a field, not the seed, that it also consumes, and no
\* other stage produces that field: the order is not resolved
C28_Witness ==
    /\ pipeline.status = "failed to resolve total ordering"
    /\ \E k \in DOMAIN stages :
          /\ stages[k].outputs \cap stages[k].consumes # {}
          /\ InputField \notin stages[k].outputs
          /\ \A j \in DOMAIN stages \ {k} :
                stages[j].outputs \cap stages[k].outputs = {}

\* another stage produces the field first: the outputs are ambiguous
C28_WitnessAmbiguous ==
    /\ pipeline.status = "ambiguous outputs"
    /\ \E k, j \in DOMAIN stages :
          /\ j # k
          /\ OutputsOverlapInputs(stages[k])
          /\ stages[k].outputs \cap stages[k].inputs \subseteq stages[j].outputs
          /\ InputField \notin stages[k].outputs

\* a resolved pipeline of three stages with inputs and outputs
C28_WitnessResolved ==
    /\ pipeline.status = "ok" /\ Len(stages) = 3
    /\ \A k \in DOMAIN stages : stages[k].inputs # {}
    /\ \E k \in DOMAIN stages : stages[k].outputs # {}

-----------------------------------------------------------------------------
\* C29 (as stated): stepping a ProcessingControl over the stage IDs of the
\* pipeline in order answers true exactly for the stages from first_stage (the
\* beginning when None) up to and including last_stage (the end when None)

\* the position of first_stage, 1 for None
ControlFirst ==
    IF control.ctrl.first_stage = None THEN 1
    ELSE Find(PipelineStages, control.ctrl.first_stage[1])

\* the position of last_stage, the last position for None
ControlLast ==
    IF control.ctrl.last_stage = None THEN Len(PipelineStages)
    ELSE Find(PipelineStages, control.ctrl.last_stage[1])

C29_ControlSelectsWindow ==
    control.status = "stepping" =>
        \A k \in DOMAIN control.answers :
            control.answers[k] <=> (ControlFirst <= k /\ k <= ControlLast)

\* C29 (amended): when first_stage is not after last_stage the control answers
\* true exactly for the stages from first_stage up to and including
\* last_stage, so for one stage when both name it; when first_stage is after
\* last_stage it answers true for the stages from first_stage to the end
C29_ControlSelectsWindowUnlessInverted ==
    control.status = "stepping" =>
        \A k \in DOMAIN control.answers :
            control.answers[k] <=>
                IF ControlFirst <= ControlLast
                THEN ControlFirst <= k /\ k <= ControlLast
                ELSE ControlFirst <= k

\* three stages stepped, the window being the second stage alone
C29_Witness ==
    /\ control.status = "stepping"
    /\ Len(PipelineStages) = 3
    /\ control.ctrl.first_stage = Some(StageId(PipelineStages[2]))
    /\ control.ctrl.last_stage = control.ctrl.first_stage
    /\ control.answers = <<FALSE, TRUE, FALSE>>

\* three stages stepped, first_stage being after last_stage
C29_WitnessInverted ==
    /\ control.status = "stepping"
    /\ Len(PipelineStages) = 3
    /\ control.ctrl.first_stage = Some(StageId(PipelineStages[2]))
    /\ control.ctrl.last_stage = Some(StageId(PipelineStages[1]))
    /\ control.answers = <<FALSE, TRUE, TRUE>>

-----------------------------------------------------------------------------
\* C30: after any calls of append the stage IDs of the pipeline are pairwise
\* distinct; an append of a stage object or stage ID already present, or with
\* an unknown 'after', fails and leaves the list unchanged; a successful
\* append inserts the stage directly after the named position (at the end
\* without 'after'), keeps the order of the other stages, and returns the
\* index at which the stage sits

\* append was called
Appended == appended.status \notin {"none", "new"}

\* the stage, or a stage of its ID, was in the list before the call
PresentBefore ==
    \E k \in DOMAIN appended.before : appended.before[k].id = appended.stage.id

\* the position 'after' names in the list before the call: the position
\* itself, or that of the stage of the ID; NotFound when there is none
NamedPosition ==
    IF appended.after.kind = "None" THEN Len(appended.before) - 1
    ELSE IF appended.after.kind = "int"
    THEN IF /\ -1 <= appended.after.position
            /\ appended.after.position < Len(appended.before)
         THEN appended.after.position ELSE NotFound
    ELSE FindIndex(appended.before, appended.after.id)

C30_AppendKeepsIdsDistinctAndOrder ==
    /\ appended.status # "none" =>
          \A j, k \in DOMAIN appended.stages :
              j # k => appended.stages[j].id # appended.stages[k].id
    /\ Appended =>
          /\ (PresentBefore \/ NamedPosition = NotFound)
                <=> appended.status # "returned"
          /\ appended.status # "returned" =>
                appended.stages = appended.before /\ appended.index = None
          /\ appended.status = "returned" =>
                /\ appended.index = Some(NamedPosition + 1)
                /\ appended.stages[NamedPosition + 2] = appended.stage
                /\ RemoveAt(appended.stages, NamedPosition + 2) = appended.before

\* a stage is inserted between two others, named by the ID of the first
C30_Witness ==
    /\ Appended /\ appended.status = "returned"
    /\ Len(appended.before) = 2
    /\ appended.after = [kind |-> "str", id |-> appended.before[1].id]
    /\ appended.index = Some(1)
    /\ appended.stages = <<appended.before[1], appended.stage, appended.before[2]>>

\* another object of an ID that is present is refused
C30_WitnessSameId ==
    /\ Appended /\ appended.status = "RuntimeError"
    /\ appended.message = "stage with ID already added"
    /\ Len(appended.before) = 2

\* an 'after' that names no stage of the pipeline is refused
C30_WitnessUnknownAfter ==
    /\ Appended /\ appended.status = "AssertionError"
    /\ Len(appended.before) = 2
    /\ appended.after = [kind |-> "str", id |-> "d"]

-----------------------------------------------------------------------------
\* C31: in a call of process that passes the window checks and in which no
\* stage fails, every stage fires exactly one of 'end' and 'skip', so a
\* handler registered under 'after' is invoked exactly once for its stage;
\* 'start' is fired only for a stage that is executed, and before its 'end';
\* a stage that is skipped or disabled fires 'skip' and neither 'start' nor
\* 'end'

\* the positions of the log at which the stage fired the event
FiredAt(event, id) ==
    { n \in DOMAIN run.log : run.log[n] = <<event, id>> }

\* the number of times the handler was invoked
TimesInvoked(cb) ==
    Cardinality({ n \in DOMAIN callbacks.invoked : callbacks.invoked[n][1] = cb })

C31_OneOfEndAndSkipPerStage ==
    (callbacks.status = "called" /\ run.status = "returned" /\ ~run.early) =>
        /\ \A k \in DOMAIN PipelineStages :
              LET id == StageId(PipelineStages[k])
                  starts == FiredAt("start", id)
                  ends   == FiredAt("end", id)
                  skips  == FiredAt("skip", id)
              IN  /\ Cardinality(ends) + Cardinality(skips) = 1
                  /\ Cardinality(starts) <= 1
                  /\ starts # {} <=> FiredAt("process", id) # {}
                  /\ starts # {} => /\ ends # {}
                                    /\ \A a \in starts, b \in ends : a < b
                  /\ skips # {} => starts = {} /\ ends = {}
                  /\ ~StageEnabled(PipelineStages[k], run.call.cfg) => skips # {}
        /\ \A cb \in DOMAIN callbacks.handlers :
              /\ callbacks.handlers[cb].name = "after" => TimesInvoked(cb) = 1
              /\ callbacks.handlers[cb].name = "start" =>
                    TimesInvoked(cb) =
                        Cardinality(FiredAt("end",
                            StageId(PipelineStages[callbacks.handlers[cb].stage])))

\* a handler registered under 'after' on a stage outside the window is
\* invoked with 'skip', another stage being executed
C31_Witness ==
    /\ callbacks.status = "called" /\ run.status = "returned" /\ ~run.early
    /\ callbacks.handlers[1].name = "after"
    /\ \E id1, id2 \in { StageId(PipelineStages[k]) : k \in DOMAIN PipelineStages } :
          /\ callbacks.invoked = <<<<1, "skip", id1>>>>
          /\ FiredAt("start", id1) = {}
          /\ FiredAt("end", id2) # {}

\* a handler registered under 'after' on a stage that is executed is invoked
\* with 'end', another stage being skipped
C31_WitnessExecuted ==
    /\ callbacks.status = "called" /\ run.status = "returned" /\ ~run.early
    /\ callbacks.handlers[1].name = "after"
    /\ \E id1, id2 \in { StageId(PipelineStages[k]) : k \in DOMAIN PipelineStages } :
          /\ callbacks.invoked = <<<<1, "end", id1>>>>
          /\ FiredAt("skip", id2) # {}

\* a stage that is disabled by default, inside the window, fires 'skip' to
\* its 'after' handler
C31_WitnessDisabled ==
    /\ callbacks.status = "called" /\ run.status = "returned" /\ ~run.early
    /\ run.call.first_stage = None /\ run.call.last_stage = None
    /\ \E cb \in DOMAIN callbacks.handlers :
          /\ callbacks.handlers[cb].name = "after"
          /\ ~PipelineStages[callbacks.handlers[cb].stage].enabled_by_default
          /\ TimesInvoked(cb) = 1

-----------------------------------------------------------------------------
(* RunScreen, checked under SpecScreen: where labels are mounted *)

\* the label is a widget of the task's container
InContainer(sc, t, id) ==
    /\ t # NoTask
    /\ \E n \in DOMAIN sc.containers[t] :
          sc.containers[t][n].kind = "label" /\ sc.containers[t][n].id = id

\* a step in which the screen handled an update without raising
Handled ==
    /\ screen.status = "mounted" /\ screen'.status = "mounted"
    /\ Len(screen'.handled) = Len(screen.handled) + 1
    /\ ~screen'.raised

\* the update handled in the step
LatestUpdate == screen'.handled[Len(screen'.handled)]

\* the label the step shows a permanent status with: the intermediate label
\* it takes over, or the label it creates
LabelShowing ==
    IF screen.intermediate # NoLabel THEN screen.intermediate
    ELSE screen.labels + 1

\* C32: every label that shows a permanent status is mounted in the container
\* of the task that is current when the status is handled, also when the
\* status before it was an intermediate one of another task
C32_PermanentLabelInCurrentTask ==
    [][(Handled /\ ~LatestUpdate.intermediate) =>
          InContainer(screen', screen'.current_task_path, LabelShowing)]_vars

-----------------------------------------------------------------------------
\* the widgets of all containers
Widgets(sc) == UNION { Range(sc.containers[t]) : t \in DOMAIN sc.containers }

\* C33: an intermediate status with empty payload (None) never adds a widget
\* to the view and never shows text: when an intermediate label is active it
\* removes that label and the progress bar, and when none is active the view
\* is left unchanged
C33_EmptyIntermediateOnlyClears ==
    [][(Handled /\ LatestUpdate.intermediate /\ LatestUpdate.status = NoStatus) =>
          /\ Widgets(screen') \subseteq Widgets(screen)
          /\ screen'.intermediate = NoLabel
          /\ IF screen.intermediate # NoLabel
             THEN /\ Bar \notin Widgets(screen')
                  /\ \A w \in Widgets(screen') :
                        w.kind = "label" => w.id # screen.intermediate
                  /\ \A t \in DOMAIN screen.containers :
                        screen'.containers[t] =
                            SelectSeq(screen.containers[t],
                                      LAMBDA w : w \in Widgets(screen'))
             ELSE screen'.containers = screen.containers]_vars

-----------------------------------------------------------------------------
\* the places <<task, position>> at which the widgets w with Test(w) are mounted
MountedAt(sc, Test(_)) ==
    UNION { { <<t, n>> : n \in { m \in DOMAIN sc.containers[t] :
                                   Test(sc.containers[t][m]) } } :
            t \in DOMAIN sc.containers }

BarMounted(sc) == MountedAt(sc, LAMBDA w : w = Bar)

IntermediateLabels(sc) ==
    MountedAt(sc, LAMBDA w : w.kind = "label" /\ w.id = sc.intermediate)

\* C34: after every status that is handled without error the progress bar is
\* mounted if and only if an intermediate label is active, and there is at
\* most one intermediate label: an intermediate update that follows an
\* intermediate one reuses its label, and a permanent update that follows an
\* intermediate one takes over its label and removes the progress bar
C34_BarIffIntermediateLabel ==
    [][Handled =>
          /\ BarMounted(screen') # {} <=> screen'.intermediate # NoLabel
          /\ Cardinality(BarMounted(screen')) <= 1
          /\ Cardinality(IntermediateLabels(screen')) =
                IF screen'.intermediate # NoLabel THEN 1 ELSE 0
          /\ (screen.intermediate # NoLabel /\ LatestUpdate.intermediate
                 /\ LatestUpdate.status # NoStatus) =>
                /\ screen'.intermediate = screen.intermediate
                /\ screen'.labels = screen.labels
                /\ IntermediateLabels(screen') = IntermediateLabels(screen)
          /\ (screen.intermediate # NoLabel /\ ~LatestUpdate.intermediate) =>
                /\ screen'.intermediate = NoLabel
                /\ MountedAt(screen', LAMBDA w : w.kind = "label"
                                                   /\ w.id = screen.intermediate)
                      = IntermediateLabels(screen)
                /\ \A t \in DOMAIN screen.containers :
                      \A n \in DOMAIN screen'.containers[t] :
                          LET w == screen'.containers[t][n]
                          IN  (w.kind = "label" /\ w.id = screen.intermediate
                                  /\ ~(LatestUpdate.status.kind = "dict"
                                         /\ LatestUpdate.status.info = "enter"))
                                 => w.text = Render(LatestUpdate.status)]_vars

\* two intermediate updates shared a label, which a permanent update then
\* took over; the progress bar is gone
C34_Witness ==
    /\ screen.status = "mounted" /\ ~screen.raised
    /\ screen.handled = <<[status |-> Info("enter", 1), intermediate |-> FALSE],
                          [status |-> Text("intermediate 1"), intermediate |-> TRUE],
                          [status |-> Progress(0, 1), intermediate |-> TRUE],
                          [status |-> Text("update 1"), intermediate |-> FALSE]>>
    /\ screen.containers[1] = <<Label(1, ""), Label(2, "update 1")>>
    /\ screen.intermediate = NoLabel

\* an intermediate label is active and the progress bar is mounted after it
C34_WitnessActive ==
    /\ screen.status = "mounted" /\ ~screen.raised
    /\ Len(screen.handled) = 3
    /\ screen.handled[2].intermediate /\ screen.handled[3].intermediate
    /\ screen.intermediate = 2
    /\ screen.containers[1] = <<Label(1, ""), Label(2, "details"), Bar>>
    /\ screen.bar = [progress |-> 0, total |-> Some(1)]

====
